---- MODULE Spec2Model ----
(***************************************************************************)
(* Pentacube wireframe renderer (main/lvgl_demo_ui.c): the animation/morph *)
(* state machine, the timer callback, and the visible edge set.            *)
(*                                                                         *)
(* Floating point.  The C code computes in IEEE-754 binary32 with          *)
(* round-to-nearest-even.  Two exact encodings are used:                   *)
(*   - x_offset is an integer count of 2^-24 (every value it takes is a    *)
(*     multiple of 2^-24: 0.6f and the start offsets are, and rounding     *)
(*     only coarsens the grid);                                            *)
(*   - morphing_progress is an integer count of 2^-28 (0.05f is);          *)
(*   - products and quotients (z_position, opacity) are records            *)
(*     [m |-> mantissa, e |-> exponent] of value m * 2^e, with             *)
(*     2^23 <= m < 2^24, or m = 0 for zero.                                *)
(* All intermediate integers stay below 2^31.                              *)
(***************************************************************************)
EXTENDS Integers, Sequences, FiniteSets, TLC

\* ------------------------------------------------------------------ bounds

\* Number of update_animation_state calls explored (startup frame included).
MaxTicks == 1000

\* Number of simple_rand calls explored from the initial seed.
MaxCalls == 3000

\* ------------------------------------------------------- program constants

FRAME_COUNT == 32
PENTACUBE_COUNT == 29
MAX_EDGE_SET == 256
BASE_SIZE == 8
LV_OPA_COVER == 255
CENTER_X == 50
CENTER_Y == 20
PERSPECTIVE_DISTANCE == 800

\* simple_rand: seed, multiplier, increment, mask 0x7fffffff
SEED0 == 12345
LCG_A == 1103515245
LCG_C == 12345
MASK31 == 2147483647

\* per-tick thresholds of update_animation_state
DIR_LIMIT == 8
AXIS_LIMIT == 16

\* 0.6f = 0x3f19999a = 10066330 * 2^-24
STEP_06 == 10066330
\* 15.0f, in the integer sense used by the division fabsf(x_offset) / 15.0f
BOUND_15 == 15
\* 200.0f and 180.0f
DEPTH_200 == 200
DEPTH_180 == 180
\* 0.05f = 0x3d4ccccd = 13421773 * 2^-28
INC_005 == 13421773
\* 0.9f = 0x3f666666 = 15099494 * 2^-24 = 241591904 * 2^-28
LOG_09 == 241591904

\* ------------------------------------------------------ binary32 arithmetic

Two(k) == 2 ^ k

Abs(n) == IF n < 0 THEN -n ELSE n

\* n >= 0 rounded to 24 significant bits, ties to even: the value a float
\* store keeps of an exact sum n (n < 2^31, in any fixed unit).
RECURSIVE RoundShift(_, _)
RoundShift(n, k) ==
    IF n \div Two(k) >= Two(24) THEN RoundShift(n, k + 1)
    ELSE LET q == n \div Two(k)
             r == n % Two(k)
             half == Two(k - 1)
             up == r > half \/ (r = half /\ q % 2 = 1)
         IN (IF up THEN q + 1 ELSE q) * Two(k)

RoundF32(n) == IF n < Two(24) THEN n ELSE RoundShift(n, 1)

\* float addition of two fixed-point floats of the same unit
FAddFix(a, b) ==
    LET s == a + b
    IN IF s < 0 THEN -RoundF32(-s) ELSE RoundF32(s)

FZero == [m |-> 0, e |-> 0]

\* the float of value n * 2^e for an integer 0 <= n < 2^31 that has at most
\* 24 significant bits
RECURSIVE FNorm(_, _)
FNorm(n, e) ==
    IF n = 0 THEN FZero
    ELSE IF n >= Two(24) THEN FNorm(n \div 2, e + 1)
    ELSE IF n < Two(23) THEN FNorm(n * 2, e - 1)
    ELSE [m |-> n, e |-> e]

\* mantissa q with remainder state (up: round away) at exponent e
FRound(q, up, e) ==
    LET m == IF up THEN q + 1 ELSE q
    IN IF m = Two(24) THEN [m |-> Two(23), e |-> e + 1] ELSE [m |-> m, e |-> e]

\* float product f * g, rounded to nearest even; the 48-bit product of the
\* mantissas is formed from 12-bit limbs.
FMul(f, g) ==
    IF f.m = 0 \/ g.m = 0 THEN FZero
    ELSE LET a1 == f.m \div Two(12)
             b1 == f.m % Two(12)
             a2 == g.m \div Two(12)
             b2 == g.m % Two(12)
             mid == (a1 * b2) + (a2 * b1)
             losum == (mid % Two(12)) * Two(12) + (b1 * b2)
             hi == (a1 * a2) + (mid \div Two(12)) + (losum \div Two(24))
             lo == losum % Two(24)
         IN IF hi >= Two(23)
            THEN FRound(hi, lo > Two(23) \/ (lo = Two(23) /\ hi % 2 = 1),
                        f.e + g.e + 24)
            ELSE LET q == (2 * hi) + (lo \div Two(23))
                     r == lo % Two(23)
                 IN FRound(q, r > Two(22) \/ (r = Two(22) /\ q % 2 = 1),
                           f.e + g.e + 23)

\* float quotient f / d for a float divisor of integer value d, 1 <= d < 128
RECURSIVE FDivShift(_, _, _)
FDivShift(f, d, k) ==
    LET q == (f.m * Two(k)) \div d
        r == (f.m * Two(k)) % d
    IN IF q < Two(23) THEN FDivShift(f, d, k + 1)
       ELSE FRound(q, 2 * r > d \/ (2 * r = d /\ q % 2 = 1), f.e - k)

FDiv(f, d) == IF f.m = 0 THEN FZero ELSE FDivShift(f, d, 0)

\* f > g for non-negative floats
FGt(f, g) ==
    IF f.m = 0 THEN FALSE
    ELSE IF g.m = 0 THEN TRUE
    ELSE f.e > g.e \/ (f.e = g.e /\ f.m > g.m)

\* (int) of a non-negative float below 2^31: truncation toward zero
FTrunc(f) ==
    IF f.m = 0 THEN 0
    ELSE IF f.e >= 0 THEN f.m * Two(f.e)
    ELSE IF -f.e > 30 THEN 0
    ELSE f.m \div Two(-f.e)

\* Signed floats: the same records with a mantissa of either sign,
\* 2^23 <= |m| < 2^24, or m = 0.

Sign(n) == IF n < 0 THEN -1 ELSE 1

FAbs(f) == [m |-> Abs(f.m), e |-> f.e]

FNeg(f) == [m |-> -f.m, e |-> f.e]

\* the float of the integer n, |n| < 2^24
FInt(n) == LET f == FNorm(Abs(n), 0) IN [m |-> Sign(n) * f.m, e |-> f.e]

\* the float nearest to n * 2^e for an integer 0 <= n < 2^31, ties to even
FNearest(n, e) == FNorm(RoundF32(n), e)

\* float product of signed floats
FMulS(f, g) ==
    LET p == FMul(FAbs(f), FAbs(g))
    IN [m |-> Sign(f.m) * Sign(g.m) * p.m, e |-> p.e]

\* Float sum f + g of signed floats, rounded to nearest even.  The operand
\* of larger exponent is h, the other l, d the difference of the exponents.
\* Both mantissas are taken with three more bits; l is shifted right by d
\* and the bits shifted out are kept as one sticky bit, which decides the
\* rounding exactly as they would.
FAdd(f, g) ==
    IF f.m = 0 THEN g
    ELSE IF g.m = 0 THEN f
    ELSE LET h == IF f.e >= g.e THEN f ELSE g
             l == IF f.e >= g.e THEN g ELSE f
             d == h.e - l.e
             la == Abs(l.m) * 8
             lq == IF d > 27 THEN 0 ELSE la \div Two(d)
             sticky == IF d > 27 THEN TRUE ELSE la % Two(d) # 0
             ls == IF sticky /\ lq % 2 = 0 THEN lq + 1 ELSE lq
             x == (h.m * 8) + (Sign(l.m) * ls)
             r == FNearest(Abs(x), h.e - 3)
         IN [m |-> Sign(x) * r.m, e |-> r.e]

FSub(f, g) == FAdd(f, FNeg(g))

\* k more quotient bits of the long division by d: r the remainder so far
RECURSIVE DivBits(_, _, _, _)
DivBits(r, d, k, q) ==
    IF k = 0 THEN [q |-> q, r |-> r]
    ELSE IF 2 * r >= d THEN DivBits((2 * r) - d, d, k - 1, (2 * q) + 1)
    ELSE DivBits(2 * r, d, k - 1, 2 * q)

\* float quotient f / g of signed floats, g # 0, rounded to nearest even:
\* 25 quotient bits below the first, then a sticky bit for the remainder
FDivS(f, g) ==
    IF f.m = 0 THEN FZero
    ELSE LET a == Abs(f.m)
             b == Abs(g.m)
             qr == DivBits(a % b, b, 25, a \div b)
             x == (2 * qr.q) + (IF qr.r # 0 THEN 1 ELSE 0)
             r == FNearest(x, (f.e - g.e) - 26)
         IN [m |-> Sign(f.m) * Sign(g.m) * r.m, e |-> r.e]

\* f <= g for signed floats
FLeS(f, g) ==
    IF f.m <= 0 /\ g.m >= 0 THEN TRUE
    ELSE IF f.m > 0 /\ g.m <= 0 THEN FALSE
    ELSE IF f.m > 0 THEN ~FGt(f, g)
    ELSE ~FGt(FAbs(g), FAbs(f))

\* (int) of a signed float: truncation toward zero
FTruncS(f) == Sign(f.m) * FTrunc(FAbs(f))

\* ------------------------------------------------------------ simple_rand

\* low 31 bits of x * y, from 11-bit limbs (no intermediate reaches 2^31)
MulLow31(x, y) ==
    LET x0 == x % Two(11)
        x1 == (x \div Two(11)) % Two(11)
        x2 == x \div Two(22)
        y0 == y % Two(11)
        y1 == (y \div Two(11)) % Two(11)
        y2 == y \div Two(22)
        t0 == x0 * y0
        mid == (x0 * y1) + (x1 * y0)
        top == (x0 * y2) + (x1 * y1) + (x2 * y0)
        upper == ((t0 \div Two(11)) + mid + ((top % Two(9)) * Two(11))) % Two(20)
    IN upper * Two(11) + (t0 % Two(11))

\* a + b modulo 2^31 for 0 <= a, b < 2^31
AddLow31(a, b) == IF a > MASK31 - b THEN a - (MASK31 - b) - 1 ELSE a + b

\* bit 31 of x * y, from the same limbs
MulBit31(x, y) ==
    LET x0 == x % Two(11)
        x1 == (x \div Two(11)) % Two(11)
        x2 == x \div Two(22)
        y0 == y % Two(11)
        y1 == (y \div Two(11)) % Two(11)
        y2 == y \div Two(22)
        t0 == x0 * y0
        mid == (x0 * y1) + (x1 * y0)
        top == (x0 * y2) + (x1 * y1) + (x2 * y0)
        upper == (t0 \div Two(11)) + mid + ((top % Two(10)) * Two(11))
    IN (upper \div Two(20)) % 2

\* the 32-bit int of bit pattern: bit 31 set or clear, low 31 bits lo
Int32(bit31, lo) == IF bit31 = 1 THEN (lo - MASK31) - 1 ELSE lo

\* x * y in a 32-bit int, wrapped modulo 2^32, for 0 <= x, y < 2^31
Mul32(x, y) == Int32(MulBit31(x, y), MulLow31(x, y))

\* v + c in a 32-bit int, wrapped modulo 2^32, for 0 <= c < 2^31
Add32(v, c) == IF v > MASK31 - c THEN ((v - MASK31) - 1) + ((c - MASK31) - 1)
               ELSE v + c

\* v & 0x7fffffff
And31(v) == IF v < 0 THEN (v + MASK31) + 1 ELSE v

\* simple_rand that returns the sum unmasked
simple_rand_NoMask(sd) == Add32(Mul32(sd, LCG_A), LCG_C)

\* seed = (seed * 1103515245 + 12345) & 0x7fffffff, lines 48-53.  The product
\* and the sum are formed in a 32-bit int, where the target wraps them
\* modulo 2^32; the mask then clears the sign bit.
simple_rand(sd) == And31(Add32(Mul32(sd, LCG_A), LCG_C))

\* --------------------------------------------------------------- the state

VARIABLES
    current_frame,              \* rotation phase
    z_position,                 \* depth position (float record)
    x_offset,                   \* lateral offset, in units of 2^-24
    x_direction,                \* +1 or -1
    direction_change_counter,
    rotation_axes,              \* <<x, y, z>> flags
    axis_change_counter,
    current_pentacube,
    next_pentacube,
    morphing_progress,          \* in units of 2^-28
    is_morphing,
    last_logged_pentacube,
    seed,                       \* simple_rand's static seed
    opacity,                    \* line opacity of the last frame drawn
    started,                    \* example_lvgl_demo_ui has run
    ticks,                      \* update_animation_state calls so far
    ev,                         \* branches the last update took, the seed
                                \* each evaluation drew from, the progress
                                \* before the update and as the trigger set it
    last_dir_eval,              \* tick of the last direction evaluation, 0: none
    prev_dir_eval,              \* tick of the one before it, 0: none
    last_axis_eval,             \* tick of the last axis reselection, 0: none
    prev_axis_eval,             \* tick of the one before it, 0: none
    morph_start_tick,           \* tick of the last morph start, 0: none
    diag_count,                 \* diagnostic lines printed since that start
    same_shape                  \* that start kept the mesh index it replaced

anim_vars == <<current_frame, z_position, x_offset, x_direction,
               direction_change_counter, rotation_axes, axis_change_counter,
               current_pentacube, next_pentacube, morphing_progress,
               is_morphing, last_logged_pentacube, seed, opacity, started,
               ticks, ev, last_dir_eval, prev_dir_eval, last_axis_eval,
               prev_axis_eval, morph_start_tick, diag_count, same_shape>>

NoEvents == [dir_eval |-> FALSE, flip |-> FALSE, clamp |-> FALSE,
             trigger |-> FALSE, done |-> FALSE, axis_eval |-> FALSE,
             logged |-> FALSE, seed_dir |-> 0, seed_axis |-> 0,
             progress_before |-> 0, progress_reset |-> -1,
             current_before |-> 0, next_before |-> 0, seed_trigger |-> 0,
             frame_phase |-> 0]

\* the statics as one record, for the functions that update them
Statics ==
    [current_frame |-> current_frame, z_position |-> z_position,
     x_offset |-> x_offset, x_direction |-> x_direction,
     direction_change_counter |-> direction_change_counter,
     rotation_axes |-> rotation_axes,
     axis_change_counter |-> axis_change_counter,
     current_pentacube |-> current_pentacube,
     next_pentacube |-> next_pentacube,
     morphing_progress |-> morphing_progress, is_morphing |-> is_morphing,
     last_logged_pentacube |-> last_logged_pentacube, seed |-> seed,
     opacity |-> opacity,
     ev |-> [NoEvents EXCEPT !.progress_before = morphing_progress]]

\* ------------------------------------------------- update_animation_state

\* random_pentacube without the reduction modulo PENTACUBE_COUNT
random_pentacube_NoMod(sd) == simple_rand(sd)

\* lines 55-58
random_pentacube(sd) == simple_rand(sd) % PENTACUBE_COUNT

\* 15.0f in units of 2^-24
XBound == BOUND_15 * Two(24)
\* 1.0f in units of 2^-28
POne == Two(28)

\* DirectionStep with the test counter >= 8
DirectionStep_Ge(s) ==
    LET c == s.direction_change_counter + 1
        r == simple_rand(s.seed)
    IN IF c >= DIR_LIMIT
       THEN [s EXCEPT !.seed = r,
                      !.x_direction = IF r % 3 = 0 THEN -@ ELSE @,
                      !.direction_change_counter = 0,
                      !.ev.dir_eval = TRUE,
                      !.ev.flip = (r % 3 = 0),
                      !.ev.seed_dir = s.seed]
       ELSE [s EXCEPT !.direction_change_counter = c]

\* lines 134-140
DirectionStep(s) ==
    LET c == s.direction_change_counter + 1
        r == simple_rand(s.seed)
    IN IF c > DIR_LIMIT
       THEN [s EXCEPT !.seed = r,
                      !.x_direction = IF r % 3 = 0 THEN -@ ELSE @,
                      !.direction_change_counter = 0,
                      !.ev.dir_eval = TRUE,
                      !.ev.flip = (r % 3 = 0),
                      !.ev.seed_dir = s.seed]
       ELSE [s EXCEPT !.direction_change_counter = c]

\* LateralStep without the clamp at -15.0f
LateralStep_NoLowerClamp(s) ==
    LET x == FAddFix(s.x_offset, s.x_direction * STEP_06)
    IN IF x > XBound
       THEN [s EXCEPT !.x_offset = XBound, !.x_direction = -1,
                      !.ev.clamp = TRUE]
       ELSE [s EXCEPT !.x_offset = x]

\* LateralStep that clamps at +15.0f without turning the direction
LateralStep_NoTurn(s) ==
    LET x == FAddFix(s.x_offset, s.x_direction * STEP_06)
    IN IF x > XBound
       THEN [s EXCEPT !.x_offset = XBound, !.ev.clamp = TRUE]
       ELSE IF x < -XBound
       THEN [s EXCEPT !.x_offset = -XBound, !.x_direction = 1,
                      !.ev.clamp = TRUE]
       ELSE [s EXCEPT !.x_offset = x]

\* lines 142-150
LateralStep(s) ==
    LET x == FAddFix(s.x_offset, s.x_direction * STEP_06)
    IN IF x > XBound
       THEN [s EXCEPT !.x_offset = XBound, !.x_direction = -1,
                      !.ev.clamp = TRUE]
       ELSE IF x < -XBound
       THEN [s EXCEPT !.x_offset = -XBound, !.x_direction = 1,
                      !.ev.clamp = TRUE]
       ELSE [s EXCEPT !.x_offset = x]

\* lines 152-154
Depth(x) ==
    LET norm_x == FDiv(FNorm(Abs(x), -24), BOUND_15)
        distance_from_center == FMul(norm_x, norm_x)
    IN FMul(distance_from_center, FNorm(DEPTH_200, 0))

DepthStep(s) == [s EXCEPT !.z_position = Depth(s.x_offset)]

\* MorphTrigger that keeps the old progress when a morph starts
MorphTrigger_NoReset(s) ==
    IF FGt(s.z_position, FNorm(DEPTH_180, 0)) /\ ~s.is_morphing
    THEN [s EXCEPT !.is_morphing = TRUE,
                   !.current_pentacube = s.next_pentacube,
                   !.next_pentacube = random_pentacube(s.seed),
                   !.seed = simple_rand(s.seed),
                   !.last_logged_pentacube = -1,
                   !.ev.trigger = TRUE,
                   !.ev.seed_trigger = s.seed,
                   !.ev.progress_reset = s.morphing_progress]
    ELSE s

\* MorphTrigger without the is_morphing guard
MorphTrigger_Retrigger(s) ==
    IF FGt(s.z_position, FNorm(DEPTH_180, 0))
    THEN LET t == [s EXCEPT !.is_morphing = TRUE,
                            !.morphing_progress = 0,
                            !.current_pentacube = s.next_pentacube,
                            !.next_pentacube = random_pentacube(s.seed),
                            !.seed = simple_rand(s.seed),
                            !.last_logged_pentacube = -1,
                            !.ev.trigger = TRUE,
                            !.ev.seed_trigger = s.seed]
         IN [t EXCEPT !.ev.progress_reset = t.morphing_progress]
    ELSE s

\* MorphTrigger that does not clear last_logged_pentacube
MorphTrigger_NoLogReset(s) ==
    IF FGt(s.z_position, FNorm(DEPTH_180, 0)) /\ ~s.is_morphing
    THEN LET t == [s EXCEPT !.is_morphing = TRUE,
                            !.morphing_progress = 0,
                            !.current_pentacube = s.next_pentacube,
                            !.next_pentacube = random_pentacube(s.seed),
                            !.seed = simple_rand(s.seed),
                            !.ev.trigger = TRUE,
                            !.ev.seed_trigger = s.seed]
         IN [t EXCEPT !.ev.progress_reset = t.morphing_progress]
    ELSE s

\* MorphTrigger that picks the next mesh before it advances the current one
MorphTrigger_PickFirst(s) ==
    IF FGt(s.z_position, FNorm(DEPTH_180, 0)) /\ ~s.is_morphing
    THEN LET t == [s EXCEPT !.is_morphing = TRUE,
                            !.morphing_progress = 0,
                            !.current_pentacube = random_pentacube(s.seed),
                            !.next_pentacube = random_pentacube(s.seed),
                            !.seed = simple_rand(s.seed),
                            !.last_logged_pentacube = -1,
                            !.ev.trigger = TRUE,
                            !.ev.seed_trigger = s.seed]
         IN [t EXCEPT !.ev.progress_reset = t.morphing_progress]
    ELSE s

\* lines 156-162
MorphTrigger(s) ==
    IF FGt(s.z_position, FNorm(DEPTH_180, 0)) /\ ~s.is_morphing
    THEN LET t == [s EXCEPT !.is_morphing = TRUE,
                            !.morphing_progress = 0,
                            !.current_pentacube = s.next_pentacube,
                            !.next_pentacube = random_pentacube(s.seed),
                            !.seed = simple_rand(s.seed),
                            !.last_logged_pentacube = -1,
                            !.ev.trigger = TRUE,
                            !.ev.seed_trigger = s.seed]
         IN [t EXCEPT !.ev.progress_reset = t.morphing_progress]
    ELSE s

\* MorphProgress that advances the progress whether or not a morph is active
MorphProgress_Always(s) ==
    LET p == FAddFix(s.morphing_progress, INC_005)
    IN IF p >= POne
       THEN [s EXCEPT !.is_morphing = FALSE, !.morphing_progress = POne,
                      !.ev.done = s.is_morphing]
       ELSE [s EXCEPT !.morphing_progress = p]

\* MorphProgress that leaves the overshoot unclamped on completion
MorphProgress_NoClamp(s) ==
    IF s.is_morphing
    THEN LET p == FAddFix(s.morphing_progress, INC_005)
         IN IF p >= POne
            THEN [s EXCEPT !.is_morphing = FALSE, !.morphing_progress = p,
                           !.ev.done = TRUE]
            ELSE [s EXCEPT !.morphing_progress = p]
    ELSE s

\* lines 164-170
MorphProgress(s) ==
    IF s.is_morphing
    THEN LET p == FAddFix(s.morphing_progress, INC_005)
         IN IF p >= POne
            THEN [s EXCEPT !.is_morphing = FALSE, !.morphing_progress = POne,
                           !.ev.done = TRUE]
            ELSE [s EXCEPT !.morphing_progress = p]
    ELSE s

\* AxisStep with the test counter >= 16
AxisStep_Ge(s) ==
    LET c == s.axis_change_counter + 1
        r1 == simple_rand(s.seed)
        r2 == simple_rand(r1)
        r3 == simple_rand(r2)
    IN IF c >= AXIS_LIMIT
       THEN [s EXCEPT !.rotation_axes = <<r1 % 2, r2 % 2, r3 % 2>>,
                      !.seed = r3,
                      !.axis_change_counter = 0,
                      !.ev.axis_eval = TRUE,
                      !.ev.seed_axis = s.seed]
       ELSE [s EXCEPT !.axis_change_counter = c]

\* lines 172-178
AxisStep(s) ==
    LET c == s.axis_change_counter + 1
        r1 == simple_rand(s.seed)
        r2 == simple_rand(r1)
        r3 == simple_rand(r2)
    IN IF c > AXIS_LIMIT
       THEN [s EXCEPT !.rotation_axes = <<r1 % 2, r2 % 2, r3 % 2>>,
                      !.seed = r3,
                      !.axis_change_counter = 0,
                      !.ev.axis_eval = TRUE,
                      !.ev.seed_axis = s.seed]
       ELSE [s EXCEPT !.axis_change_counter = c]

\* update_animation_state that derives the depth before it moves the offset
update_animation_state_DepthFirst(s) ==
    LET s0 == [s EXCEPT !.ev.current_before = s.current_pentacube,
                        !.ev.next_before = s.next_pentacube]
    IN AxisStep(MorphProgress(MorphTrigger(LateralStep(DepthStep(DirectionStep(s0))))))

\* lines 132-179
update_animation_state(s) ==
    LET s0 == [s EXCEPT !.ev.current_before = s.current_pentacube,
                        !.ev.next_before = s.next_pentacube]
    IN AxisStep(MorphProgress(MorphTrigger(DepthStep(LateralStep(DirectionStep(s0))))))

\* ---------------------------------------------------- draw_pentacube_frame

\* lv_opa_t opacity = (lv_opa_t)(LV_OPA_COVER * morphing_progress), line 196
Opacity(p) == FTrunc(FMul(FNorm(LV_OPA_COVER, 0), FNorm(p, -28))) % Two(8)

\* The state the frame leaves behind: the animation update (line 185), the
\* opacity its lines are drawn with (line 196) and the once-per-shape
\* diagnostic (lines 307-315).  The geometry of the frame (lines 198-305)
\* writes only per-frame buffers; it is modelled by FaceStep below.
draw_pentacube_frame(s) ==
    LET u == update_animation_state(s)
        log == u.morphing_progress > LOG_09
               /\ u.current_pentacube # u.last_logged_pentacube
    IN [u EXCEPT !.opacity = Opacity(u.morphing_progress),
                 !.last_logged_pentacube =
                     IF log THEN u.current_pentacube ELSE @,
                 !.ev.logged = log,
                 !.ev.frame_phase = u.current_frame]

\* animation_timer_cb that advances the phase before it draws the frame
animation_timer_cb_Early(s) ==
    draw_pentacube_frame(
        [s EXCEPT !.current_frame = (s.current_frame + 1) % FRAME_COUNT])

\* lines 318-323
animation_timer_cb(s) ==
    LET d == draw_pentacube_frame(s)
    IN [d EXCEPT !.current_frame = (d.current_frame + 1) % FRAME_COUNT]

\* get_pentacube_center_x(current_pentacube) for the meshes of the table
\* (main/pentacubes.c): the mean x of a mesh whose vertices have coordinates
\* in 0..3, as a float in units of 2^-24: 0.5, 1.0, 1.45f, 1.5, 1.875, 2.0, 2.5.
CenterXs == {Two(23), Two(24), 24326964, 3 * Two(23), 15 * Two(21),
             Two(25), 5 * Two(23)}

\* lines 360-367 of example_lvgl_demo_ui, with centre cx of the first mesh
example_lvgl_demo_ui(s, cx) ==
    LET r1 == simple_rand(s.seed)
        r2 == simple_rand(r1)
    IN draw_pentacube_frame(
           [s EXCEPT !.current_pentacube = random_pentacube(s.seed),
                     !.next_pentacube = random_pentacube(r1),
                     !.seed = r2,
                     !.x_offset = -(cx * BASE_SIZE)])

\* ------------------------------------------- rotate_point, project_point

\* cosf and sinf of the angle of each phase, float angle = (float)phase *
\* 2.0f * M_PI / FRAME_COUNT (line 187): the floats nearest to the cosine
\* and the sine of that float angle, entry phase + 1.
CosTable ==
    <<[m |-> 8388608, e |-> -23],
      [m |-> 16454846, e |-> -24],
      [m |-> 15500126, e |-> -24],
      [m |-> 13949745, e |-> -24],
      [m |-> 11863283, e |-> -24],
      [m |-> 9320922, e |-> -24],
      [m |-> 12840725, e |-> -25],
      [m |-> 13092292, e |-> -26],
      [m |-> -12303662, e |-> -48],
      [m |-> -13092290, e |-> -26],
      [m |-> -12840724, e |-> -25],
      [m |-> -9320921, e |-> -24],
      [m |-> -11863283, e |-> -24],
      [m |-> -13949746, e |-> -24],
      [m |-> -15500126, e |-> -24],
      [m |-> -16454847, e |-> -24],
      [m |-> -8388608, e |-> -23],
      [m |-> -16454847, e |-> -24],
      [m |-> -15500126, e |-> -24],
      [m |-> -13949744, e |-> -24],
      [m |-> -11863284, e |-> -24],
      [m |-> -9320925, e |-> -24],
      [m |-> -12840730, e |-> -25],
      [m |-> -13092294, e |-> -26],
      [m |-> 13426222, e |-> -50],
      [m |-> 13092296, e |-> -26],
      [m |-> 12840731, e |-> -25],
      [m |-> 9320919, e |-> -24],
      [m |-> 11863281, e |-> -24],
      [m |-> 13949745, e |-> -24],
      [m |-> 15500127, e |-> -24],
      [m |-> 16454847, e |-> -24]>>

SinTable ==
    <<[m |-> 0, e |-> 0],
      [m |-> 13092290, e |-> -26],
      [m |-> 12840726, e |-> -25],
      [m |-> 9320922, e |-> -24],
      [m |-> 11863283, e |-> -24],
      [m |-> 13949745, e |-> -24],
      [m |-> 15500126, e |-> -24],
      [m |-> 16454846, e |-> -24],
      [m |-> 8388608, e |-> -23],
      [m |-> 16454846, e |-> -24],
      [m |-> 15500127, e |-> -24],
      [m |-> 13949746, e |-> -24],
      [m |-> 11863283, e |-> -24],
      [m |-> 9320921, e |-> -24],
      [m |-> 12840727, e |-> -25],
      [m |-> 13092289, e |-> -26],
      [m |-> -12303662, e |-> -47],
      [m |-> -13092285, e |-> -26],
      [m |-> -12840725, e |-> -25],
      [m |-> -9320923, e |-> -24],
      [m |-> -11863282, e |-> -24],
      [m |-> -13949743, e |-> -24],
      [m |-> -15500126, e |-> -24],
      [m |-> -16454846, e |-> -24],
      [m |-> -8388608, e |-> -23],
      [m |-> -16454846, e |-> -24],
      [m |-> -15500125, e |-> -24],
      [m |-> -13949747, e |-> -24],
      [m |-> -11863285, e |-> -24],
      [m |-> -9320923, e |-> -24],
      [m |-> -12840725, e |-> -25],
      [m |-> -13092284, e |-> -26]>>

\* the float next to f, away from zero (d = 1) or toward it (d = -1)
Neighbour(f, d) ==
    IF d = 0 \/ f.m = 0 THEN f
    ELSE IF d = 1
    THEN LET r == FNorm(Abs(f.m) + 1, f.e)
         IN [m |-> Sign(f.m) * r.m, e |-> r.e]
    ELSE IF Abs(f.m) = Two(23)
    THEN [m |-> Sign(f.m) * (Two(24) - 1), e |-> f.e - 1]
    ELSE [m |-> f.m - Sign(f.m), e |-> f.e]

\* What cosf and sinf return for angle * flag (lines 188-190 and 73-78):
\* for the angle 0, which a cleared flag and phase 0 give, exactly 1 and 0;
\* else the table's float, or a float next to it (d.c, d.s in -1..1): a
\* libm returns the nearest float or a neighbour of it.
Trig(phase, flag, d) ==
    IF phase * flag = 0
    THEN [cos |-> CosTable[1], sin |-> SinTable[1]]
    ELSE [cos |-> Neighbour(CosTable[phase + 1], d.c),
          sin |-> Neighbour(SinTable[phase + 1], d.s)]

\* rotate_point with temp_z computed from the y already rotated
rotate_point_Stale(p, ax, ay, az) ==
    LET y1 == FSub(FMulS(p[2], ax.cos), FMulS(p[3], ax.sin))
        z1 == FAdd(FMulS(y1, ax.sin), FMulS(p[3], ax.cos))
        x1 == FAdd(FMulS(p[1], ay.cos), FMulS(z1, ay.sin))
        z2 == FAdd(FMulS(FNeg(p[1]), ay.sin), FMulS(z1, ay.cos))
        x2 == FSub(FMulS(x1, az.cos), FMulS(y1, az.sin))
        y2 == FAdd(FMulS(x1, az.sin), FMulS(y1, az.cos))
    IN <<x2, y2, z2>>

\* lines 71-93: p = <<x, y, z>>; ax, ay, az the cosine and sine of the
\* three angles.  Every product and sum is rounded to a float on its own.
rotate_point(p, ax, ay, az) ==
    LET y1 == FSub(FMulS(p[2], ax.cos), FMulS(p[3], ax.sin))
        z1 == FAdd(FMulS(p[2], ax.sin), FMulS(p[3], ax.cos))
        x1 == FAdd(FMulS(p[1], ay.cos), FMulS(z1, ay.sin))
        z2 == FAdd(FMulS(FNeg(p[1]), ay.sin), FMulS(z1, ay.cos))
        x2 == FSub(FMulS(x1, az.cos), FMulS(y1, az.sin))
        y2 == FAdd(FMulS(x1, az.sin), FMulS(y1, az.cos))
    IN <<x2, y2, z2>>

\* 0.1f = 0x3dcccccd = 13421773 * 2^-27
F01 == [m |-> 13421773, e |-> -27]

\* the float of a fixed-point float in units of 2^-24
FFix(x) == LET f == FNorm(Abs(x), -24) IN [m |-> Sign(x) * f.m, e |-> f.e]

\* lines 60-69: p the rotated point, xoff and zpos the floats x_offset and
\* z_position; the result is <<screen_x, screen_y>>
project_point(p, xoff, zpos) ==
    LET pz0 == FAdd(FAdd(p[3], zpos), FInt(PERSPECTIVE_DISTANCE))
        perspective_z == IF FLeS(pz0, F01) THEN F01 ELSE pz0
        scale == FDivS(FInt(PERSPECTIVE_DISTANCE), perspective_z)
    IN <<CENTER_X
           + FTruncS(FAdd(xoff, FMulS(FMulS(p[1], FInt(BASE_SIZE)), scale))),
         CENTER_Y + FTruncS(FMulS(FMulS(p[2], FInt(BASE_SIZE)), scale))>>

\* 1.5f
F15 == FNorm(3, -1)

NoUlp == [c |-> 0, s |-> 0]

\* lines 203-218 for vertex v = <<x, y, z>> of integer coordinates: centre,
\* rotate by the angles of lines 187-190, project
ScreenPoint(v, phase, axes, d, xoff, zpos) ==
    LET c == <<FSub(FInt(v[1]), F15), FSub(FInt(v[2]), F15),
               FSub(FInt(v[3]), F15)>>
        r == rotate_point(c, Trig(phase, axes[1], d), Trig(phase, axes[2], d),
                          Trig(phase, axes[3], d))
    IN project_point(r, xoff, zpos)

\* ------------------------------------------------- the visible edge set

VARIABLES
    mesh,                   \* the pentacube_data_t the frame draws
    screen_coords,          \* projected <<x, y>> of vertex i at index i + 1
    visible_edges,          \* the written entries of the edge_t buffer
    visible_edge_count,
    face_idx,               \* loop variable of the face loop
    face_vert_idx,          \* start of the face's loop in face_vertices
    visible_faces,
    total_faces_checked,
    calls,                  \* add_edge_to_set calls made on their own
    call_log,               \* the last two of them, the latest last
    render,                 \* the draw loop's i and lines_drawn, the opa
                            \* of each line drawn, the indices at which
                            \* the frame read screen_coords outside the
                            \* buffer, and whether an access faulted
    scratch,                \* the buffers of lv_mem_alloc the frame holds
    pos                     \* "frame" inside draw_pentacube_frame, else "idle"

frame_vars == <<mesh, screen_coords, visible_edges, visible_edge_count,
                face_idx, face_vert_idx, visible_faces, total_faces_checked,
                calls, call_log, render, scratch, pos>>

VARIABLES
    rand_calls,             \* simple_rand calls made on their own
    rand_prev,              \* the seed the last of them started from
    tri,                    \* three screen points <<x, y>> given to the
                            \* visibility test on its own
    vis,                    \* what the test returned for them, in loop
                            \* order and in reversed order
    edge_mesh,              \* the mesh the un-culled renderer draws: its
                            \* vertex_count, edges and edge_count
    edge_loop,              \* that renderer's edge loop: edge_idx,
                            \* lines_drawn, the lines drawn, the edges
                            \* reported, the vertices read
    rot                     \* a point given to rotate_point on its own
                            \* (p: twice its coordinates) and the point
                            \* the call left in its place (q: floats)

probe_vars == <<rand_calls, rand_prev, tri, vis, edge_mesh, edge_loop, rot>>

\* element i of a C array kept as a sequence
At(arr, i) == arr[i + 1]

Edge(a, b) == [v1 |-> a, v2 |-> b]

\* add_edge_to_set without the swap that puts the smaller index first
add_edge_to_set_NoSwap(edge_set, edge_count, v1, v2) ==
    IF edge_count >= MAX_EDGE_SET
    THEN [edge_set |-> edge_set, edge_count |-> edge_count, ret |-> FALSE]
    ELSE IF \E i \in 1..edge_count : edge_set[i] = Edge(v1, v2)
         THEN [edge_set |-> edge_set, edge_count |-> edge_count, ret |-> TRUE]
         ELSE [edge_set |-> Append(edge_set, Edge(v1, v2)),
               edge_count |-> edge_count + 1, ret |-> TRUE]

\* add_edge_to_set with the capacity test edge_count > MAX_EDGE_SET
add_edge_to_set_Gt(edge_set, edge_count, v1, v2) ==
    IF edge_count > MAX_EDGE_SET
    THEN [edge_set |-> edge_set, edge_count |-> edge_count, ret |-> FALSE]
    ELSE LET a == IF v1 > v2 THEN v2 ELSE v1
             b == IF v1 > v2 THEN v1 ELSE v2
         IN IF \E i \in 1..edge_count : edge_set[i] = Edge(a, b)
            THEN [edge_set |-> edge_set, edge_count |-> edge_count,
                  ret |-> TRUE]
            ELSE [edge_set |-> Append(edge_set, Edge(a, b)),
                  edge_count |-> edge_count + 1, ret |-> TRUE]

\* lines 110-130.  edge_set holds the entries 0..edge_count-1 written so
\* far; the store to edge_set[*edge_count] appends one.
add_edge_to_set(edge_set, edge_count, v1, v2) ==
    IF edge_count >= MAX_EDGE_SET
    THEN [edge_set |-> edge_set, edge_count |-> edge_count, ret |-> FALSE]
    ELSE LET a == IF v1 > v2 THEN v2 ELSE v1
             b == IF v1 > v2 THEN v1 ELSE v2
         IN IF \E i \in 1..edge_count : edge_set[i] = Edge(a, b)
            THEN [edge_set |-> edge_set, edge_count |-> edge_count,
                  ret |-> TRUE]
            ELSE [edge_set |-> Append(edge_set, Edge(a, b)),
                  edge_count |-> edge_count + 1, ret |-> TRUE]

\* is_face_visible_debug with the test cross >= 0
is_face_visible_debug_Ge(x0, y0, x1, y1, x2, y2) ==
    LET edge1_x == x1 - x0
        edge1_y == y1 - y0
        edge2_x == x2 - x0
        edge2_y == y2 - y0
        cross == (edge1_x * edge2_y) - (edge1_y * edge2_x)
    IN [cross |-> cross, visible |-> cross >= 0]

\* lines 97-108
is_face_visible_debug(x0, y0, x1, y1, x2, y2) ==
    LET edge1_x == x1 - x0
        edge1_y == y1 - y0
        edge2_x == x2 - x0
        edge2_y == y2 - y0
        cross == (edge1_x * edge2_y) - (edge1_y * edge2_x)
    IN [cross |-> cross, visible |-> cross > 0]

\* the edge loop of a visible face that stops before the wrap-around pair
RECURSIVE AddFaceEdges_NoWrap(_, _, _, _, _)
AddFaceEdges_NoWrap(m, es, start, n, i) ==
    IF i >= n - 1 THEN es
    ELSE LET va == At(m.face_vertices, start + i)
             vb == At(m.face_vertices, start + ((i + 1) % n))
             r == add_edge_to_set(es.edge_set, es.edge_count, va, vb)
         IN AddFaceEdges_NoWrap(m, [edge_set |-> r.edge_set,
                                    edge_count |-> r.edge_count],
                                start, n, i + 1)

\* lines 266-270: the pairs i, i+1, ... of the face of n vertices whose loop
\* starts at start; the value add_edge_to_set returns is not used
RECURSIVE AddFaceEdges(_, _, _, _, _)
AddFaceEdges(m, es, start, n, i) ==
    IF i >= n THEN es
    ELSE LET va == At(m.face_vertices, start + i)
             vb == At(m.face_vertices, start + ((i + 1) % n))
             r == add_edge_to_set(es.edge_set, es.edge_count, va, vb)
         IN AddFaceEdges(m, [edge_set |-> r.edge_set,
                             edge_count |-> r.edge_count],
                         start, n, i + 1)

\* lines 241-253: the face's first three vertices, classified on screen
FaceVisible(m, sc, start) ==
    LET p0 == At(sc, At(m.face_vertices, start))
        p1 == At(sc, At(m.face_vertices, start + 1))
        p2 == At(sc, At(m.face_vertices, start + 2))
    IN is_face_visible_debug(p0[1], p0[2], p1[1], p1[2], p2[1], p2[2]).visible

\* The mesh table is main/pentacubes.c.  These meshes have its layout, a
\* flat face_vertices stream with a parallel face_vertex_counts array, and
\* keep its invariant: every index is below vertex_count, every loop has at
\* least three vertices.
Tetrahedron ==
    [name |-> "tetra", vertex_count |-> 4, face_count |-> 4,
     face_vertices |-> <<0, 1, 2,  0, 3, 1,  1, 3, 2,  2, 3, 0>>,
     face_vertex_counts |-> <<3, 3, 3, 3>>]

Pyramid ==
    [name |-> "pyramid", vertex_count |-> 5, face_count |-> 5,
     face_vertices |-> <<0, 3, 2, 1,  0, 1, 4,  1, 2, 4,  2, 3, 4,  3, 0, 4>>,
     face_vertex_counts |-> <<4, 3, 3, 3, 3>>]

TwoSided ==
    [name |-> "sheet", vertex_count |-> 4, face_count |-> 2,
     face_vertices |-> <<0, 1, 2, 3,  3, 2, 1, 0>>,
     face_vertex_counts |-> <<4, 4>>]

Pentagon ==
    [name |-> "penta", vertex_count |-> 5, face_count |-> 3,
     face_vertices |-> <<0, 1, 2, 3, 4,  0, 2, 4,  4, 3, 2, 1, 0>>,
     face_vertex_counts |-> <<5, 3, 5>>]

NoMesh ==
    [name |-> "", vertex_count |-> 0, face_count |-> 0,
     face_vertices |-> <<>>, face_vertex_counts |-> <<>>]

\* The unit cube, vertex x + 2y + 4z at <<x, y, z>>, each face loop
\* counter-clockwise when seen from outside the cube.
UnitCube ==
    [name |-> "cube", vertex_count |-> 8, face_count |-> 6,
     vertices |-> <<<<0, 0, 0>>, <<1, 0, 0>>, <<0, 1, 0>>, <<1, 1, 0>>,
                    <<0, 0, 1>>, <<1, 0, 1>>, <<0, 1, 1>>, <<1, 1, 1>>>>,
     face_vertices |-> <<0, 2, 3, 1,  4, 5, 7, 6,  0, 1, 5, 4,
                         2, 6, 7, 3,  0, 4, 6, 2,  1, 3, 7, 5>>,
     face_vertex_counts |-> <<4, 4, 4, 4, 4, 4>>]

\* Meshes that break the table's invariant: a face refers to the vertex
\* index vertex_count, among the three vertices the face is classified by
\* (BadTetra) or only later in its loop (BadPyramid).
BadTetra ==
    [name |-> "badtetra", vertex_count |-> 4, face_count |-> 4,
     face_vertices |-> <<0, 1, 2,  0, 3, 1,  1, 3, 4,  2, 3, 0>>,
     face_vertex_counts |-> <<3, 3, 3, 3>>]

BadPyramid ==
    [name |-> "badpyr", vertex_count |-> 5, face_count |-> 5,
     face_vertices |-> <<0, 3, 2, 5,  0, 1, 4,  1, 2, 4,  2, 3, 4,  3, 0, 4>>,
     face_vertex_counts |-> <<4, 3, 3, 3, 3>>]

CorruptMeshes == {BadTetra, BadPyramid}

\* int lines_drawn = 0 (line 282), nothing read outside the buffer
RenderStart == [i |-> 0, lines_drawn |-> 0, outside_reads |-> {},
                fault |-> FALSE, opas |-> <<>>]

\* the three buffers of lines 200, 201 and 222
ScratchBuffers == {"rotated_verts", "screen_coords", "visible_edges"}

\* inside a frame, after its allocations, all of which returned a buffer
MidFrame == scratch = ScratchBuffers /\ pos = "frame"

\* the largest vertex index the mesh's faces refer to
RECURSIVE MaxOf(_, _)
MaxOf(seq, k) ==
    IF k = 0 THEN 0
    ELSE LET rest == MaxOf(seq, k - 1)
         IN IF seq[k] > rest THEN seq[k] ELSE rest

\* screen_coords has vertex_count entries (line 201); a read at an index
\* from vertex_count on is a read of the heap past the buffer, which finds
\* any contents there, or faults.  The memory the frame can read is the
\* buffer followed by a tail of arbitrary points.
Tails(m, points) ==
    LET top == MaxOf(m.face_vertices, Len(m.face_vertices))
    IN [1..(IF top >= m.vertex_count THEN (top + 1) - m.vertex_count ELSE 0)
          -> points]

\* the indices among vs that lie outside the buffer of mesh m
Outside(m, vs) == {v \in vs : v < 0 \/ v >= m.vertex_count}

\* what a read at the indices vs can do
ReadOutcomes(m, vs) ==
    IF Outside(m, vs) = {} THEN {"read"} ELSE {"read", "fault"}

ModelMeshes == {Tetrahedron, Pyramid, TwoSided, Pentagon}

\* largest screen coordinate of the projected points explored
MaxCoord == 1

\* calls of add_edge_to_set explored on one set, and the largest vertex
\* index they are given
MaxAdds == 3
MaxVertex == 1

\* The sets the calls start from are those add_edge_to_set builds from the
\* empty set when given, in this order, the first n pairs of the list
\* (FillTop, FillTop), (FillTop, FillTop - 1), ..., (FillTop, 0),
\* (FillTop - 1, FillTop - 1), ...: the pairs are distinct, so each one is
\* appended, smaller index first.
FillTop == 22

RECURSIVE FillPair(_, _)
FillPair(k, j) ==
    IF k <= j + 1 THEN <<j, j - (k - 1)>> ELSE FillPair(k - (j + 1), j - 1)

FillSet(n) ==
    [edge_set |-> [k \in 1..n |-> Edge(FillPair(k, FillTop)[2],
                                       FillPair(k, FillTop)[1])],
     edge_count |-> n]

FillLevels == {0, 1, MAX_EDGE_SET - 2, MAX_EDGE_SET - 1, MAX_EDGE_SET}

\* ---------------------------------------------------------------- actions

\* the statics become those of record s; the tick observers follow the
\* branches the update took
Commit(s) ==
    /\ current_frame' = s.current_frame
    /\ z_position' = s.z_position
    /\ x_offset' = s.x_offset
    /\ x_direction' = s.x_direction
    /\ direction_change_counter' = s.direction_change_counter
    /\ rotation_axes' = s.rotation_axes
    /\ axis_change_counter' = s.axis_change_counter
    /\ current_pentacube' = s.current_pentacube
    /\ next_pentacube' = s.next_pentacube
    /\ morphing_progress' = s.morphing_progress
    /\ is_morphing' = s.is_morphing
    /\ last_logged_pentacube' = s.last_logged_pentacube
    /\ seed' = s.seed
    /\ opacity' = s.opacity
    /\ ev' = s.ev
    /\ ticks' = ticks + 1
    /\ last_dir_eval' = IF s.ev.dir_eval THEN ticks + 1 ELSE last_dir_eval
    /\ prev_dir_eval' = IF s.ev.dir_eval THEN last_dir_eval ELSE prev_dir_eval
    /\ last_axis_eval' = IF s.ev.axis_eval THEN ticks + 1 ELSE last_axis_eval
    /\ prev_axis_eval' = IF s.ev.axis_eval THEN last_axis_eval ELSE prev_axis_eval
    /\ morph_start_tick' = IF s.ev.trigger THEN ticks + 1 ELSE morph_start_tick
    /\ diag_count' = (IF s.ev.trigger THEN 0 ELSE diag_count)
                      + (IF s.ev.logged THEN 1 ELSE 0)
    /\ same_shape' = IF s.ev.trigger
                      THEN s.current_pentacube = s.ev.current_before
                      ELSE same_shape

\* example_lvgl_demo_ui: picks the meshes, centres the first, draws a frame
Startup ==
    /\ ~started
    /\ started' = TRUE
    /\ \E cx \in CenterXs : Commit(example_lvgl_demo_ui(Statics, cx))
    /\ UNCHANGED <<frame_vars, probe_vars>>

\* one period of animation_timer
Tick ==
    /\ started
    /\ ticks < MaxTicks
    /\ started' = started
    /\ Commit(animation_timer_cb(Statics))
    /\ UNCHANGED <<frame_vars, probe_vars>>

\* the static initialisers, lines 27-42 and 50
AnimInit ==
    /\ current_frame = 0
    /\ z_position = FZero
    /\ x_offset = 0
    /\ x_direction = 1
    /\ direction_change_counter = 0
    /\ rotation_axes = <<1, 0, 0>>
    /\ axis_change_counter = 0
    /\ current_pentacube = 0
    /\ next_pentacube = 1
    /\ morphing_progress = 0
    /\ is_morphing = FALSE
    /\ last_logged_pentacube = -1
    /\ seed = SEED0
    /\ opacity = 0
    /\ started = FALSE
    /\ ticks = 0
    /\ ev = NoEvents
    /\ last_dir_eval = 0
    /\ prev_dir_eval = 0
    /\ last_axis_eval = 0
    /\ prev_axis_eval = 0
    /\ morph_start_tick = 0
    /\ diag_count = 0
    /\ same_shape = FALSE

\* one call of add_edge_to_set on the set, as line 269 makes it
AddEdgeCall ==
    /\ calls < MaxAdds
    /\ \E v1 \in 0..MaxVertex, v2 \in 0..MaxVertex :
          LET r == add_edge_to_set(visible_edges, visible_edge_count, v1, v2)
              c == [v1 |-> v1, v2 |-> v2, ret |-> r.ret,
                    below |-> visible_edge_count < MAX_EDGE_SET]
          IN /\ visible_edges' = r.edge_set
             /\ visible_edge_count' = r.edge_count
             /\ call_log' = IF call_log = <<>> THEN <<c>>
                            ELSE <<call_log[Len(call_log)], c>>
    /\ calls' = calls + 1
    /\ UNCHANGED <<mesh, screen_coords, face_idx, face_vert_idx,
                   visible_faces, total_faces_checked, render, scratch, pos>>
    /\ UNCHANGED <<anim_vars, probe_vars>>

\* one iteration of the face loop, lines 238-274
FaceStep ==
    /\ face_idx < mesh.face_count
    /\ Len(screen_coords) = mesh.vertex_count
    /\ ~render.fault
    /\ \E tail \in Tails(mesh, (0..MaxCoord) \X (0..MaxCoord)),
          outcome \in ReadOutcomes(mesh,
                         {At(mesh.face_vertices, face_vert_idx + k) :
                             k \in 0..2}) :
       LET face_vert_count == At(mesh.face_vertex_counts, face_idx)
           read == {At(mesh.face_vertices, face_vert_idx + k) : k \in 0..2}
           visible == FaceVisible(mesh, screen_coords \o tail, face_vert_idx)
           es == IF visible
                 THEN AddFaceEdges(mesh,
                                   [edge_set |-> visible_edges,
                                    edge_count |-> visible_edge_count],
                                   face_vert_idx, face_vert_count, 0)
                 ELSE [edge_set |-> visible_edges,
                       edge_count |-> visible_edge_count]
       IN IF outcome = "fault" \/ (visible /\ "visible_edges" \notin scratch)
          THEN /\ render' = [render EXCEPT
                                !.outside_reads = @ \cup Outside(mesh, read),
                                !.fault = TRUE]
               /\ UNCHANGED <<visible_edges, visible_edge_count,
                              visible_faces, total_faces_checked,
                              face_vert_idx, face_idx>>
          ELSE /\ render' = [render EXCEPT
                                !.outside_reads = @ \cup Outside(mesh, read)]
               /\ visible_edges' = es.edge_set
               /\ visible_edge_count' = es.edge_count
               /\ visible_faces' = IF visible THEN visible_faces + 1
                                   ELSE visible_faces
               /\ total_faces_checked' = total_faces_checked + 1
               /\ face_vert_idx' = face_vert_idx + face_vert_count
               /\ face_idx' = face_idx + 1
    /\ UNCHANGED <<mesh, screen_coords, calls, call_log, scratch, pos>>
    /\ UNCHANGED <<anim_vars, probe_vars>>

\* no frame is being built
FrameIdle ==
    /\ mesh = NoMesh
    /\ screen_coords = <<>>
    /\ visible_edges = <<>>
    /\ visible_edge_count = 0
    /\ face_idx = 0
    /\ face_vert_idx = 0
    /\ visible_faces = 0
    /\ total_faces_checked = 0
    /\ calls = 0
    /\ call_log = <<>>
    /\ render = RenderStart
    /\ scratch = {}
    /\ pos = "idle"

NoEdgeMesh == [vertex_count |-> 0, edges |-> <<>>, edge_count |-> 0]

\* int lines_drawn = 0 and edge_idx = 0, nothing drawn, reported or read
EdgeLoopStart == [edge_idx |-> 0, lines_drawn |-> 0, drawn |-> <<>>,
                  reported |-> {}, verts_read |-> {}]

\* the edge loop's body with the bounds check index > vertex_count
draw_edge_Gt(m, st) ==
    LET v1_idx == At(m.edges, st.edge_idx * 2)
        v2_idx == At(m.edges, (st.edge_idx * 2) + 1)
    IN IF v1_idx > m.vertex_count \/ v2_idx > m.vertex_count
       THEN [st EXCEPT !.reported = @ \cup {st.edge_idx},
                       !.edge_idx = @ + 1]
       ELSE [st EXCEPT !.verts_read = @ \cup {v1_idx, v2_idx},
                       !.drawn = Append(@, <<v1_idx, v2_idx>>),
                       !.lines_drawn = @ + 1,
                       !.edge_idx = @ + 1]

\* One iteration of the edge loop of the renderer without culling
\* (unnamed/part_001, lines 175-213): the bounds check that reports and
\* skips, else the reads of verts[v1_idx] and verts[v2_idx], the line and
\* the count.
draw_edge(m, st) ==
    LET v1_idx == At(m.edges, st.edge_idx * 2)
        v2_idx == At(m.edges, (st.edge_idx * 2) + 1)
    IN IF v1_idx >= m.vertex_count \/ v2_idx >= m.vertex_count
       THEN [st EXCEPT !.reported = @ \cup {st.edge_idx},
                       !.edge_idx = @ + 1]
       ELSE [st EXCEPT !.verts_read = @ \cup {v1_idx, v2_idx},
                       !.drawn = Append(@, <<v1_idx, v2_idx>>),
                       !.lines_drawn = @ + 1,
                       !.edge_idx = @ + 1]

NoVis == [done |-> FALSE, fwd |-> [cross |-> 0, visible |-> FALSE],
          rev |-> [cross |-> 0, visible |-> FALSE]]

NoRot == [p |-> <<0, 0, 0>>, q |-> <<FZero, FZero, FZero>>, done |-> FALSE]

\* no function is being called on its own
ProbeIdle ==
    /\ rand_calls = 0
    /\ rand_prev = 0
    /\ tri = <<>>
    /\ vis = NoVis
    /\ edge_mesh = NoEdgeMesh
    /\ edge_loop = EdgeLoopStart
    /\ rot = NoRot

vars == <<anim_vars, frame_vars, probe_vars>>

Init == AnimInit /\ FrameIdle /\ ProbeIdle

Next == Startup \/ Tick

\* the program: startup, then the timer's ticks
Spec == Init /\ [][Next]_vars

\* add_edge_to_set on its own: calls with any pair of indices, on the sets
\* of FillLevels entries
InitEdges ==
    /\ AnimInit
    /\ ProbeIdle
    /\ mesh = NoMesh
    /\ screen_coords = <<>>
    /\ \E n \in FillLevels :
          /\ visible_edges = FillSet(n).edge_set
          /\ visible_edge_count = FillSet(n).edge_count
    /\ face_idx = 0
    /\ face_vert_idx = 0
    /\ visible_faces = 0
    /\ total_faces_checked = 0
    /\ calls = 0
    /\ call_log = <<>>
    /\ render = RenderStart
    /\ MidFrame

NextEdges == AddEdgeCall

SpecEdges == InitEdges /\ [][NextEdges]_vars

\* the face loop of one frame (lines 222-274) for a mesh and the screen
\* points its vertices project to
InitFrame ==
    /\ AnimInit
    /\ ProbeIdle
    /\ mesh \in ModelMeshes
    /\ screen_coords \in [1..mesh.vertex_count ->
                            (0..MaxCoord) \X (0..MaxCoord)]
    /\ visible_edges = <<>>
    /\ visible_edge_count = 0
    /\ face_idx = 0
    /\ face_vert_idx = 0
    /\ visible_faces = 0
    /\ total_faces_checked = 0
    /\ calls = 0
    /\ call_log = <<>>
    /\ render = RenderStart
    /\ MidFrame

NextFrame == FaceStep

SpecFrame == InitFrame /\ [][NextFrame]_vars

\* one call of simple_rand: the static seed advances
RandCall ==
    /\ rand_calls < MaxCalls
    /\ seed' = simple_rand(seed)
    /\ rand_calls' = rand_calls + 1
    /\ rand_prev' = seed
    /\ UNCHANGED <<tri, vis, edge_mesh, edge_loop, rot>>
    /\ UNCHANGED <<current_frame, z_position, x_offset, x_direction,
                   direction_change_counter, rotation_axes,
                   axis_change_counter, current_pentacube, next_pentacube,
                   morphing_progress, is_morphing, last_logged_pentacube,
                   opacity, started, ticks, ev, last_dir_eval, prev_dir_eval,
                   last_axis_eval, prev_axis_eval, morph_start_tick,
                   diag_count, same_shape>>
    /\ UNCHANGED frame_vars

\* the generator on its own: the values it returns from the seed 12345
InitRand == AnimInit /\ FrameIdle /\ ProbeIdle

NextRand == RandCall

SpecRand == InitRand /\ [][NextRand]_vars

\* largest screen coordinate of the three points classified on their own
MaxPoint == 2

\* is_face_visible_debug called as line 253 calls it, for the three points
\* in loop order and for the same points in reversed order
Classify ==
    /\ ~vis.done
    /\ vis' = [done |-> TRUE,
               fwd |-> is_face_visible_debug(tri[1][1], tri[1][2],
                                             tri[2][1], tri[2][2],
                                             tri[3][1], tri[3][2]),
               rev |-> is_face_visible_debug(tri[3][1], tri[3][2],
                                             tri[2][1], tri[2][2],
                                             tri[1][1], tri[1][2])]
    /\ UNCHANGED <<tri, rand_calls, rand_prev, edge_mesh, edge_loop, rot>>
    /\ UNCHANGED <<anim_vars, frame_vars>>

\* the visibility test on its own, for every three points of the grid
InitVis ==
    /\ AnimInit
    /\ FrameIdle
    /\ rand_calls = 0
    /\ rand_prev = 0
    /\ tri \in [1..3 -> (0..MaxPoint) \X (0..MaxPoint)]
    /\ vis = NoVis
    /\ edge_mesh = NoEdgeMesh
    /\ edge_loop = EdgeLoopStart
    /\ rot = NoRot

NextVis == Classify

SpecVis == InitVis /\ [][NextVis]_vars

\* vertex count of the meshes drawn without culling, and the longest edge
\* list explored
EdgeMeshVerts == 1
MaxEdgeList == 3

\* the mesh of EdgeMeshVerts vertices with the n edges of the flat list l
EdgeMesh(n, l) == [vertex_count |-> EdgeMeshVerts, edge_count |-> n,
                   edges |-> l]

\* one iteration of the edge loop
EdgeStep ==
    /\ edge_loop.edge_idx < edge_mesh.edge_count
    /\ edge_loop' = draw_edge(edge_mesh, edge_loop)
    /\ UNCHANGED <<edge_mesh, rand_calls, rand_prev, tri, vis, rot>>
    /\ UNCHANGED <<anim_vars, frame_vars>>

\* the renderer without culling, on every list of at most MaxEdgeList pairs
\* of indices from 0 to one past vertex_count (vertex_count itself, the
\* off-by-one, included)
InitEdgeList ==
    /\ AnimInit
    /\ FrameIdle
    /\ rand_calls = 0
    /\ rand_prev = 0
    /\ tri = <<>>
    /\ vis = NoVis
    /\ \E n \in 0..MaxEdgeList :
       \E l \in [1..(2 * n) -> 0..(EdgeMeshVerts + 1)] :
          edge_mesh = EdgeMesh(n, l)
    /\ edge_loop = EdgeLoopStart
    /\ rot = NoRot

NextEdgeList == EdgeStep

SpecEdgeList == InitEdgeList /\ [][NextEdgeList]_vars

\* one iteration of the draw loop, lines 283-301: the two end points of
\* visible_edges[i] are read from screen_coords and the line is drawn
DrawStep ==
    /\ face_idx = mesh.face_count
    /\ render.i < visible_edge_count
    /\ ~render.fault
    /\ LET read == {visible_edges[render.i + 1].v1,
                    visible_edges[render.i + 1].v2}
       IN \E outcome \in ReadOutcomes(mesh, read) :
             render' = IF outcome = "fault"
                       THEN [render EXCEPT
                               !.outside_reads = @ \cup Outside(mesh, read),
                               !.fault = TRUE]
                       ELSE [render EXCEPT
                               !.outside_reads = @ \cup Outside(mesh, read),
                               !.lines_drawn = @ + 1,
                               !.opas = Append(@, opacity),
                               !.i = @ + 1]
    /\ UNCHANGED <<mesh, screen_coords, visible_edges, visible_edge_count,
                   face_idx, face_vert_idx, visible_faces,
                   total_faces_checked, calls, call_log, scratch, pos>>
    /\ UNCHANGED <<anim_vars, probe_vars>>

\* the face loop and the draw loop of one frame for a mesh whose faces
\* refer to a vertex the mesh does not have
InitCorrupt ==
    /\ AnimInit
    /\ ProbeIdle
    /\ mesh \in CorruptMeshes
    /\ screen_coords \in [1..mesh.vertex_count ->
                            (0..MaxCoord) \X (0..MaxCoord)]
    /\ visible_edges = <<>>
    /\ visible_edge_count = 0
    /\ face_idx = 0
    /\ face_vert_idx = 0
    /\ visible_faces = 0
    /\ total_faces_checked = 0
    /\ calls = 0
    /\ call_log = <<>>
    /\ render = RenderStart
    /\ MidFrame

NextCorrupt == FaceStep \/ DrawStep

SpecCorrupt == InitCorrupt /\ [][NextCorrupt]_vars

\* The vertex loop of one frame, lines 203-218: every vertex of the mesh is
\* centred, rotated by the frame's angles and projected into screen_coords.
VertexLoop ==
    /\ mesh.vertex_count > 0
    /\ screen_coords = <<>>
    /\ ~render.fault
    /\ IF {"rotated_verts", "screen_coords"} \subseteq scratch
       THEN /\ \E dc \in -1..1, ds \in -1..1 :
                  screen_coords' =
                     [i \in 1..mesh.vertex_count |->
                         ScreenPoint(mesh.vertices[i], current_frame,
                                     rotation_axes, [c |-> dc, s |-> ds],
                                     FFix(x_offset), z_position)]
            /\ render' = render
       ELSE /\ render' = [render EXCEPT !.fault = TRUE]
            /\ screen_coords' = screen_coords
    /\ UNCHANGED <<mesh, visible_edges, visible_edge_count, face_idx,
                   face_vert_idx, visible_faces, total_faces_checked, calls,
                   call_log, scratch, pos>>
    /\ UNCHANGED <<anim_vars, probe_vars>>

\* the statics a frame's geometry does not depend on, as initialised
AnimRest ==
    /\ x_direction = 1
    /\ direction_change_counter = 0
    /\ axis_change_counter = 0
    /\ current_pentacube = 0
    /\ next_pentacube = 1
    /\ morphing_progress = 0
    /\ is_morphing = FALSE
    /\ last_logged_pentacube = -1
    /\ seed = SEED0
    /\ opacity = 0
    /\ started = FALSE
    /\ ticks = 0
    /\ ev = NoEvents
    /\ last_dir_eval = 0
    /\ prev_dir_eval = 0
    /\ last_axis_eval = 0
    /\ prev_axis_eval = 0
    /\ morph_start_tick = 0
    /\ diag_count = 0
    /\ same_shape = FALSE

\* the lateral offsets of the cube frames: up to MaxCubeSteps steps of 0.6
\* from the centre, to either side
MaxCubeSteps == 12

RECURSIVE OffsetAfter(_)
OffsetAfter(k) ==
    IF k = 0 THEN 0 ELSE FAddFix(OffsetAfter(k - 1), STEP_06)

CubeOffsets ==
    {OffsetAfter(k) : k \in 0..MaxCubeSteps}
        \cup {-OffsetAfter(k) : k \in 0..MaxCubeSteps}

\* One frame of the unit cube at zero rotation (current_frame = 0, so the
\* angle of line 187 is 0), camera distance 800, at a lateral offset with
\* the depth line 154 gives it.
InitCube ==
    /\ current_frame = 0
    /\ x_offset \in CubeOffsets
    /\ z_position = Depth(x_offset)
    /\ rotation_axes = <<1, 0, 0>>
    /\ AnimRest
    /\ ProbeIdle
    /\ mesh = UnitCube
    /\ screen_coords = <<>>
    /\ visible_edges = <<>>
    /\ visible_edge_count = 0
    /\ face_idx = 0
    /\ face_vert_idx = 0
    /\ visible_faces = 0
    /\ total_faces_checked = 0
    /\ calls = 0
    /\ call_log = <<>>
    /\ render = RenderStart
    /\ MidFrame

NextCube == VertexLoop \/ FaceStep \/ DrawStep

SpecCube == InitCube /\ [][NextCube]_vars

\* largest vertex coordinate of the points rotated on their own
MaxRotVertex == 2

\* Twice the coordinates of the points rotated: the mesh vertices of integer
\* coordinates 0..MaxRotVertex, centred by 1.5 as line 204 centres them, and
\* the six unit points on the axes.
RotPoints ==
    {<<(2 * v[1]) - 3, (2 * v[2]) - 3, (2 * v[3]) - 3>> :
        v \in (0..MaxRotVertex) \X (0..MaxRotVertex) \X (0..MaxRotVertex)}
      \cup {<<2, 0, 0>>, <<-2, 0, 0>>, <<0, 2, 0>>, <<0, -2, 0>>,
             <<0, 0, 2>>, <<0, 0, -2>>}

\* the float h / 2
FHalf(h) == LET f == FNorm(Abs(h), -1) IN [m |-> Sign(h) * f.m, e |-> f.e]

\* rotate_point called as line 211 calls it, with the angles of lines
\* 187-190
RotateCall ==
    /\ ~rot.done
    /\ \E dc \in -1..1, ds \in -1..1 :
          LET d == [c |-> dc, s |-> ds]
          IN rot' = [rot EXCEPT
                       !.done = TRUE,
                       !.q = rotate_point(
                                <<FHalf(rot.p[1]), FHalf(rot.p[2]),
                                  FHalf(rot.p[3])>>,
                                Trig(current_frame, rotation_axes[1], d),
                                Trig(current_frame, rotation_axes[2], d),
                                Trig(current_frame, rotation_axes[3], d))]
    /\ UNCHANGED <<rand_calls, rand_prev, tri, vis, edge_mesh, edge_loop>>
    /\ UNCHANGED <<anim_vars, frame_vars>>

\* rotate_point on its own: every point of RotPoints at every phase and
\* every axis mask
InitRotate ==
    /\ current_frame \in 0..(FRAME_COUNT - 1)
    /\ rotation_axes \in {0, 1} \X {0, 1} \X {0, 1}
    /\ x_offset = 0
    /\ z_position = FZero
    /\ AnimRest
    /\ FrameIdle
    /\ rand_calls = 0
    /\ rand_prev = 0
    /\ tri = <<>>
    /\ vis = NoVis
    /\ edge_mesh = NoEdgeMesh
    /\ edge_loop = EdgeLoopStart
    /\ \E p \in RotPoints : rot = [NoRot EXCEPT !.p = p]

NextRotate == RotateCall

SpecRotate == InitRotate /\ [][NextRotate]_vars

\* frame_head that computes the opacity before the animation update
frame_head_OpacityFirst(s) ==
    LET u == update_animation_state(s)
    IN [u EXCEPT !.opacity = Opacity(s.morphing_progress),
                 !.ev.frame_phase = u.current_frame]

\* lines 183-196 of draw_pentacube_frame: the animation update, then the
\* opacity of the frame's lines
frame_head(s) ==
    LET u == update_animation_state(s)
    IN [u EXCEPT !.opacity = Opacity(u.morphing_progress),
                 !.ev.frame_phase = u.current_frame]

\* lines 303-305 with the third lv_mem_free left out
free_scratch_Leak(held) == held \ {"rotated_verts", "screen_coords"}

\* lines 303-305: lv_mem_free of the three pointers; freeing a null
\* pointer does nothing
free_scratch(held) ==
    held \ {"rotated_verts", "screen_coords", "visible_edges"}

\* frames drawn in a run of whole frames
MaxFrames == 1
\* largest phase such a run starts from
MaxPhase == 1
\* such a run starts at most this many steps of 0.6 from the centre
MaxLineSteps == 1

LineOffsets ==
    {OffsetAfter(k) : k \in 0..MaxLineSteps}
        \cup {-OffsetAfter(k) : k \in 0..MaxLineSteps}

\* the progress after k additions of 0.05f from 0.0f (lines 165-168)
RECURSIVE ProgressAfter(_)
ProgressAfter(k) ==
    IF k = 0 THEN 0
    ELSE LET p == FAddFix(ProgressAfter(k - 1), INC_005)
         IN IF p >= POne THEN POne ELSE p

\* A timer period begins: draw_pentacube_frame is entered, runs the update
\* and computes the opacity (lines 183-196), and asks for its three buffers
\* (lines 200, 201 and 222); got are those lv_mem_alloc returned, the
\* others came back null.
FrameBegin ==
    /\ pos = "idle"
    /\ ~render.fault
    /\ ticks < MaxFrames
    /\ started' = started
    /\ Commit(frame_head(Statics))
    /\ \E got \in SUBSET ScratchBuffers : scratch' = got
    /\ pos' = "frame"
    /\ screen_coords' = <<>>
    /\ visible_edges' = <<>>
    /\ visible_edge_count' = 0
    /\ face_idx' = 0
    /\ face_vert_idx' = 0
    /\ visible_faces' = 0
    /\ total_faces_checked' = 0
    /\ render' = RenderStart
    /\ UNCHANGED <<mesh, calls, call_log>>
    /\ UNCHANGED probe_vars

\* The frame ends: after the draw loop the buffers are freed (lines
\* 303-305), the diagnostic is printed if due (lines 307-315), the
\* function returns and animation_timer_cb advances the phase (line 322).
FrameEnd ==
    /\ pos = "frame"
    /\ ~render.fault
    /\ screen_coords # <<>>
    /\ face_idx = mesh.face_count
    /\ render.i = visible_edge_count
    /\ scratch' = free_scratch(scratch)
    /\ pos' = "idle"
    /\ LET log == morphing_progress > LOG_09
                  /\ current_pentacube # last_logged_pentacube
       IN /\ last_logged_pentacube' =
                IF log THEN current_pentacube ELSE last_logged_pentacube
          /\ ev' = [ev EXCEPT !.logged = log]
          /\ diag_count' = diag_count + (IF log THEN 1 ELSE 0)
    /\ current_frame' = (current_frame + 1) % FRAME_COUNT
    /\ UNCHANGED <<z_position, x_offset, x_direction,
                   direction_change_counter, rotation_axes,
                   axis_change_counter, current_pentacube, next_pentacube,
                   morphing_progress, is_morphing, seed, opacity, started,
                   ticks, last_dir_eval, prev_dir_eval, last_axis_eval,
                   prev_axis_eval, morph_start_tick, same_shape>>
    /\ UNCHANGED <<mesh, screen_coords, visible_edges, visible_edge_count,
                   face_idx, face_vert_idx, visible_faces,
                   total_faces_checked, calls, call_log, render>>
    /\ UNCHANGED probe_vars

\* Whole timer frames of the unit cube, step by step, from the states of
\* the animation between two periods: a lateral offset, a phase, an axis
\* mask, and the morph idle at progress 0.0 or 1.0 or active after 1 to 19
\* of its ticks.
InitLines ==
    /\ current_frame \in 0..MaxPhase
    /\ x_offset \in LineOffsets
    /\ z_position = Depth(x_offset)
    /\ x_direction = 1
    /\ direction_change_counter = 0
    /\ rotation_axes \in {<<1, 0, 0>>, <<1, 1, 1>>}
    /\ axis_change_counter = 0
    /\ current_pentacube = 0
    /\ next_pentacube = 1
    /\ \E k \in 0..20 :
          /\ morphing_progress = ProgressAfter(k)
          /\ is_morphing = (k \in 1..19)
          /\ last_logged_pentacube = (IF k = 20 THEN 0 ELSE -1)
    /\ seed = SEED0
    /\ opacity = Opacity(morphing_progress)
    /\ started = TRUE
    /\ ticks = 0
    /\ ev = NoEvents
    /\ last_dir_eval = 0
    /\ prev_dir_eval = 0
    /\ last_axis_eval = 0
    /\ prev_axis_eval = 0
    /\ morph_start_tick = 0
    /\ diag_count = 0
    /\ same_shape = FALSE
    /\ ProbeIdle
    /\ mesh = UnitCube
    /\ screen_coords = <<>>
    /\ visible_edges = <<>>
    /\ visible_edge_count = 0
    /\ face_idx = 0
    /\ face_vert_idx = 0
    /\ visible_faces = 0
    /\ total_faces_checked = 0
    /\ calls = 0
    /\ call_log = <<>>
    /\ render = RenderStart
    /\ scratch = {}
    /\ pos = "idle"

NextLines == FrameBegin \/ VertexLoop \/ FaceStep \/ DrawStep \/ FrameEnd

SpecLines == InitLines /\ [][NextLines]_vars

\* ------------------------------------------------------------ properties

AtBound == Abs(x_offset) = XBound

\* the direction points from the bound the offset is at back to the centre
Inward == (x_offset = XBound /\ x_direction = -1)
          \/ (x_offset = -XBound /\ x_direction = 1)

Outward == (x_offset = XBound /\ x_direction = 1)
           \/ (x_offset = -XBound /\ x_direction = -1)

\* C1: in every state, from the static initialisers through startup and
\* every later tick, the lateral offset lies in [-15.0, +15.0].
C1_OffsetBounded == -XBound <= x_offset /\ x_offset <= XBound

\* C1 witness: startup put the offset outside the range (mesh centre 2.5,
\* offset -20.0) and its first update clamped it to -15.0.
C1_Witness == started /\ ticks = 1 /\ ev.clamp /\ x_offset = -XBound

\* C2 as stated: whenever the offset is at a bound at the end of a tick the
\* direction points inward, and the direction is +1 or -1.
C2_Original ==
    started => (AtBound => Inward) /\ x_direction \in {1, -1}

\* C2 amended: the direction is always +1 or -1; a tick that overshoots is
\* clamped to the bound with the direction inward at the end of that tick; a
\* tick that lands exactly on the bound without overshooting leaves the
\* direction outward, and the tick after it ends with the direction turned.
C2_Amended ==
    [][/\ x_direction' \in {1, -1}
       /\ ev'.clamp => Inward'
       /\ (AtBound' /\ ~ev'.clamp) => Outward'
       /\ Outward => (x_direction' = -x_direction /\ ~Outward')]_vars

\* C2 witness: the offset landed exactly on a bound, unclamped, and the
\* direction still points outward.
C2_Witness == started /\ AtBound /\ ~ev.clamp /\ Outward

\* C3: while morphing, the progress never decreases from one tick to the
\* next; it never exceeds 1.0; the tick on which it reaches 1.0 leaves it at
\* exactly 1.0 with is_morphing cleared, and a morph ends only so.
C3_MorphMonotone ==
    [][/\ is_morphing => morphing_progress' >= morphing_progress
       /\ morphing_progress' <= POne
       /\ ev'.done => (morphing_progress' = POne /\ ~is_morphing')
       /\ (is_morphing /\ ~is_morphing') => (ev'.done /\ morphing_progress' = POne)
       /\ (is_morphing' /\ ~ev'.trigger) => is_morphing]_vars

\* C3 witness: a morph has just completed.
C3_Witness == ev.done /\ morphing_progress = POne /\ ~is_morphing

\* C4 as stated: on the tick a morph starts the progress is exactly 0.0 and
\* the frame of that tick is drawn with that value as its opacity fraction.
C4_Original ==
    ev.trigger => (ev.progress_reset = 0 /\ opacity = Opacity(0))

\* C4 amended: on the tick a morph starts the trigger resets the progress to
\* exactly 0.0 whatever it was before, and the same update then adds 0.05f:
\* the frame of that tick is drawn with progress 0.05f, opacity 12 of 255.
C4_Amended ==
    ev.trigger => /\ ev.progress_reset = 0
                  /\ morphing_progress = INC_005
                  /\ is_morphing
                  /\ opacity = Opacity(INC_005)
                  /\ opacity = 12

\* C4 witness: a morph started from a completed one (progress 1.0 before).
C4_Witness == ev.trigger /\ ev.progress_before = POne /\ opacity = 12

\* ticks of the current morph, the starting tick counted
MorphTicks == ticks - morph_start_tick + 1

\* C5: a tick whose depth exceeds 180.0f with no morph active starts the
\* morph in that tick; a morph completes (progress 1.0, flag cleared) on its
\* 20th tick, the starting tick counted: it is never still active at 20 and
\* never ends before.
C5_MorphTwentyTicks ==
    [][/\ (~is_morphing /\ FGt(z_position', FNorm(DEPTH_180, 0)))
             => (ev'.trigger /\ is_morphing' /\ morph_start_tick' = ticks')
       /\ ev'.trigger => (~is_morphing /\ FGt(z_position', FNorm(DEPTH_180, 0)))
       /\ ev'.done => (MorphTicks' = 20 /\ morphing_progress' = POne
                       /\ ~is_morphing')
       /\ is_morphing' => MorphTicks' < 20
       /\ (is_morphing /\ ~is_morphing') => ev'.done]_vars

\* C5 witness: a morph has completed on its 20th tick.
C5_Witness == ev.done /\ MorphTicks = 20 /\ morphing_progress = POne

\* C6 as stated: consecutive evaluations of the direction flip are exactly
\* 8 ticks apart.
C6_Original == prev_dir_eval > 0 => last_dir_eval - prev_dir_eval = 8

\* C6 amended: the direction counter increments once per tick and the flip
\* is evaluated on the tick that takes it above 8, so every 9 ticks:
\* consecutive evaluations are exactly 9 ticks apart (the first is tick 9),
\* the evaluation flips the sign iff the draw is 0 modulo 3 and resets the
\* counter to 0, and on every other tick this step draws nothing and leaves
\* the sign alone (only the clamp may turn it).
C6_Amended ==
    [][/\ ev'.dir_eval <=> direction_change_counter = DIR_LIMIT
       /\ ev'.dir_eval =>
             /\ direction_change_counter' = 0
             /\ last_dir_eval' = ticks'
             /\ last_dir_eval' - last_dir_eval = 9
             /\ ev'.flip <=> simple_rand(ev'.seed_dir) % 3 = 0
             /\ ev'.seed_dir = seed
       /\ ~ev'.dir_eval =>
             /\ direction_change_counter' = direction_change_counter + 1
             /\ ~ev'.flip
             /\ last_dir_eval' = last_dir_eval
       /\ (~ev'.flip /\ ~ev'.clamp) => x_direction' = x_direction
       /\ (ev'.flip /\ ~ev'.clamp) => x_direction' = -x_direction]_vars

\* C6 witness: an evaluation, with an earlier one, that flipped the sign.
C6_Witness == prev_dir_eval > 0 /\ ev.dir_eval /\ ev.flip

\* C7 as stated: consecutive axis reselections are exactly 16 ticks apart.
C7_Original == prev_axis_eval > 0 => last_axis_eval - prev_axis_eval = 16

\* C7 amended: the axis counter increments once per tick and the axes are
\* reselected on the tick that takes it above 16, so every 17 ticks:
\* consecutive reselections are exactly 17 ticks apart (the first is tick
\* 17), each sets the three flags to three successive draws modulo 2 and
\* resets the counter to 0, and on every other tick the mask is unchanged.
\* (The generator's low bit alternates, so the mask set is 1,0,1 or 0,1,0.)
C7_Amended ==
    [][/\ ev'.axis_eval <=> axis_change_counter = AXIS_LIMIT
       /\ ev'.axis_eval =>
             LET r1 == simple_rand(ev'.seed_axis)
                 r2 == simple_rand(r1)
                 r3 == simple_rand(r2)
             IN /\ axis_change_counter' = 0
                /\ last_axis_eval' = ticks'
                /\ last_axis_eval' - last_axis_eval = 17
                /\ rotation_axes' = <<r1 % 2, r2 % 2, r3 % 2>>
                /\ seed' = r3
                /\ \A i \in 1..3 : rotation_axes'[i] \in {0, 1}
                /\ rotation_axes' \in {<<1, 0, 1>>, <<0, 1, 0>>}
       /\ ~ev'.axis_eval =>
             /\ axis_change_counter' = axis_change_counter + 1
             /\ rotation_axes' = rotation_axes
             /\ last_axis_eval' = last_axis_eval]_vars

\* C7 witness: a reselection, with an earlier one, that changed the mask
\* from the initial <<1, 0, 0>>.
C7_Witness == prev_axis_eval > 0 /\ ev.axis_eval /\ rotation_axes # <<1, 0, 0>>

\* the entry an unordered pair is stored as
Canon(a, b) == IF a > b THEN Edge(b, a) ELSE Edge(a, b)

\* number of entries of the set es, of n entries, equal to e
CountIn(es, n, e) == Cardinality({i \in 1..n : es[i] = e})

\* number of stored entries equal to e
CountOf(e) == CountIn(visible_edges, visible_edge_count, e)

LastCall == call_log[Len(call_log)]

\* C8: after a call add_edge_to_set(a, b) on a set below capacity the set
\* holds exactly one entry for the pair; a following call with (a, b) or
\* (b, a) changes nothing and still leaves exactly one; every stored entry
\* has v1 <= v2 and no two stored entries are equal.
C8_DedupIdempotent ==
    [][/\ \A i \in 1..visible_edge_count' :
             visible_edges'[i].v1 <= visible_edges'[i].v2
       /\ \A i, j \in 1..visible_edge_count' :
             i < j => visible_edges'[i] # visible_edges'[j]
       /\ LastCall'.below
             => CountIn(visible_edges', visible_edge_count',
                        Canon(LastCall'.v1, LastCall'.v2)) = 1
       /\ (/\ call_log # <<>>
           /\ LastCall.below
           /\ Canon(LastCall.v1, LastCall.v2) = Canon(LastCall'.v1, LastCall'.v2))
          => /\ visible_edges' = visible_edges
             /\ visible_edge_count' = visible_edge_count
             /\ CountIn(visible_edges', visible_edge_count',
                        Canon(LastCall.v1, LastCall.v2)) = 1]_vars

\* C8 witness: (a, b) was added below capacity, then (b, a) with a # b, and
\* the set holds the pair once.
C8_Witness ==
    /\ Len(call_log) = 2
    /\ call_log[1].below
    /\ call_log[1].v1 # call_log[1].v2
    /\ call_log[2].v1 = call_log[1].v2
    /\ call_log[2].v2 = call_log[1].v1
    /\ CountOf(Canon(call_log[1].v1, call_log[1].v2)) = 1

\* C9: the edge count never exceeds MAX_EDGE_SET; a call made at capacity
\* returns false having written nothing: every entry and the count are as
\* before; no call changes an entry already stored.  (The caller, line 269,
\* discards the value returned: AddFaceEdges reads only the set and count.)
C9_CapacityBound ==
    [][/\ visible_edge_count' <= MAX_EDGE_SET
       /\ Len(visible_edges') = visible_edge_count'
       /\ visible_edge_count' >= visible_edge_count
       /\ \A i \in 1..visible_edge_count : visible_edges'[i] = visible_edges[i]
       /\ visible_edge_count = MAX_EDGE_SET
             => /\ visible_edges' = visible_edges
                /\ visible_edge_count' = visible_edge_count
                /\ ~LastCall'.ret
       /\ visible_edge_count < MAX_EDGE_SET => LastCall'.ret]_vars

\* C9 witness: a pair the full set does not hold was given and dropped.
C9_Witness ==
    /\ call_log # <<>>
    /\ visible_edge_count = MAX_EDGE_SET
    /\ ~LastCall.below
    /\ ~LastCall.ret
    /\ CountOf(Canon(LastCall.v1, LastCall.v2)) = 0

\* the loop of face f read from the flat arrays: its start is the sum of the
\* vertex counts of the faces before it
RECURSIVE FaceStart(_, _)
FaceStart(m, f) ==
    IF f = 0 THEN 0 ELSE FaceStart(m, f - 1) + At(m.face_vertex_counts, f - 1)

FaceLen(m, f) == At(m.face_vertex_counts, f)

FaceVertex(m, f, i) == At(m.face_vertices, FaceStart(m, f) + i)

\* (v1 - v0) x (v2 - v0) of the face's first three screen points
FaceCross(m, sc, f) ==
    LET p0 == At(sc, FaceVertex(m, f, 0))
        p1 == At(sc, FaceVertex(m, f, 1))
        p2 == At(sc, FaceVertex(m, f, 2))
    IN ((p1[1] - p0[1]) * (p2[2] - p0[2])) - ((p1[2] - p0[2]) * (p2[1] - p0[1]))

VisibleFaces(m, sc) == {f \in 0..(m.face_count - 1) : FaceCross(m, sc, f) > 0}

\* the pairs cyclically consecutive in the loop of a visible face
WireframeEdges(m, sc) ==
    UNION {{Canon(FaceVertex(m, f, i), FaceVertex(m, f, (i + 1) % FaceLen(m, f))) :
               i \in 0..(FaceLen(m, f) - 1)} : f \in VisibleFaces(m, sc)}

FaceLoopDone == mesh # NoMesh /\ face_idx = mesh.face_count

\* C10: for a mesh whose visible faces have at most MAX_EDGE_SET distinct
\* edges, after the face loop the edge set holds a pair iff its two indices
\* are cyclically consecutive (last to first included) in the loop of a face
\* classified visible, each such pair once; pairs of non-visible faces only
\* are absent.
C10_VisibleWireframe ==
    (FaceLoopDone /\ Cardinality(WireframeEdges(mesh, screen_coords)) <= MAX_EDGE_SET)
    => /\ {visible_edges[i] : i \in 1..visible_edge_count}
             = WireframeEdges(mesh, screen_coords)
       /\ visible_edge_count = Cardinality(WireframeEdges(mesh, screen_coords))
       /\ Len(visible_edges) = visible_edge_count
       /\ visible_faces = Cardinality(VisibleFaces(mesh, screen_coords))
       /\ total_faces_checked = mesh.face_count

\* C10 witness: the loop is done, two or more faces were visible and shared
\* an edge, and a face that was not visible has an edge that is absent.
C10_Witness ==
    /\ FaceLoopDone
    /\ visible_faces >= 2
    /\ visible_faces < mesh.face_count
    /\ \E f, g \in VisibleFaces(mesh, screen_coords) :
          /\ f # g
          /\ \E i \in 0..(FaceLen(mesh, f) - 1), j \in 0..(FaceLen(mesh, g) - 1) :
                Canon(FaceVertex(mesh, f, i),
                      FaceVertex(mesh, f, (i + 1) % FaceLen(mesh, f)))
                = Canon(FaceVertex(mesh, g, j),
                        FaceVertex(mesh, g, (j + 1) % FaceLen(mesh, g)))
    /\ \E f \in 0..(mesh.face_count - 1) :
       \E i \in 0..(FaceLen(mesh, f) - 1) :
          CountOf(Canon(FaceVertex(mesh, f, i),
                        FaceVertex(mesh, f, (i + 1) % FaceLen(mesh, f)))) = 0

\* C15: the diagnostic line is printed exactly once per shape display: never
\* more than one line between two morph starts, exactly one has been printed
\* when the morph completes and when the next morph starts, also when the
\* new mesh index equals the one it replaced; a line is printed only with
\* the progress above 0.9f.
C15_DiagnosticOnce ==
    [][/\ diag_count' <= 1
       /\ (ev'.trigger /\ morph_start_tick > 0) => diag_count = 1
       /\ ev'.done => diag_count' = 1
       /\ ev'.logged => morphing_progress' > LOG_09]_vars

\* C15 witness: a morph that kept the mesh index it replaced has just
\* printed its line.
C15_Witness == same_shape /\ ev.logged /\ diag_count = 1

\* C17: the phase is always in 0..FRAME_COUNT-1; a timer tick draws its
\* frame with the phase as it was before the tick and then advances it by
\* one modulo FRAME_COUNT; the startup frame leaves it alone.
C17_PhaseAdvance ==
    [][/\ current_frame \in 0..(FRAME_COUNT - 1)
       /\ current_frame' \in 0..(FRAME_COUNT - 1)
       /\ ev'.frame_phase = current_frame
       /\ started => current_frame' = (current_frame + 1) % FRAME_COUNT
       /\ ~started => current_frame' = current_frame]_vars

\* C17 witness: the tick that drew phase 31 wrapped the phase to 0.
C17_Witness ==
    started /\ ticks > FRAME_COUNT /\ ev.frame_phase = FRAME_COUNT - 1
    /\ current_frame = 0

\* C19: an update that starts a morph makes the current mesh index the value
\* the next index had when the update began and the next index a fresh pick
\* (the generator's next value modulo PENTACUBE_COUNT); an update that starts
\* no morph leaves both as they were; a timer tick begins its update with
\* the indices the previous frame left.
C19_MeshAdvance ==
    [][/\ started => (ev'.current_before = current_pentacube
                      /\ ev'.next_before = next_pentacube)
       /\ ev'.trigger => /\ current_pentacube' = ev'.next_before
                         /\ next_pentacube' = random_pentacube(ev'.seed_trigger)
                         /\ next_pentacube' = simple_rand(ev'.seed_trigger)
                                                  % PENTACUBE_COUNT
       /\ ~ev'.trigger => /\ current_pentacube' = ev'.current_before
                          /\ next_pentacube' = ev'.next_before]_vars

\* C19 witness: a timer tick started a morph and both indices changed.
C19_Witness ==
    /\ ticks > 1
    /\ ev.trigger
    /\ current_pentacube = ev.next_before
    /\ current_pentacube # ev.current_before
    /\ next_pentacube # ev.next_before

\* C20: in every state, before startup, after it and after every tick, the
\* current and the next mesh index are in 0..PENTACUBE_COUNT-1.
C20_MeshIndexInRange ==
    /\ current_pentacube \in 0..(PENTACUBE_COUNT - 1)
    /\ next_pentacube \in 0..(PENTACUBE_COUNT - 1)

\* C20 witness: a morph picked the last mesh of the table.
C20_Witness == ev.trigger /\ next_pentacube = PENTACUBE_COUNT - 1

\* a + a + ... (b times) modulo 2^31 by doubling: the exact product a * b
\* reduced modulo 2^31, no intermediate above 2^31 - 1
RECURSIVE MulMod31(_, _)
MulMod31(a, b) ==
    IF b = 0 THEN 0
    ELSE LET h == MulMod31(a, b \div 2)
             d == AddLow31(h, h)
         IN IF b % 2 = 1 THEN AddLow31(d, a) ELSE d

\* (sd * 1103515245 + 12345) mod 2^31 in exact integer arithmetic
ExactLcg(sd) == AddLow31(MulMod31(sd, LCG_A), LCG_C)

\* C16: every call of simple_rand from the seed 12345 returns, and leaves as
\* the seed, a value in [0, 2^31) equal to (previous seed * 1103515245 +
\* 12345) mod 2^31 in exact arithmetic, the 32-bit product wrapping.
C16_LcgExact ==
    [][/\ seed' \in 0..MASK31
       /\ seed' = ExactLcg(seed)]_vars

\* C16 witness: a call whose 32-bit product and sum came out negative, the
\* sign bit cleared by the mask.
C16_Witness ==
    /\ rand_calls > 0
    /\ Add32(Mul32(rand_prev, LCG_A), LCG_C) < 0
    /\ seed = ExactLcg(rand_prev)

\* twice the signed area of the triangle p0 p1 p2 (shoelace form)
Area2(p0, p1, p2) ==
    (p0[1] * (p1[2] - p2[2])) + (p1[1] * (p2[2] - p0[2]))
    + (p2[1] * (p0[2] - p1[2]))

EdgeInRange(m, k) ==
    /\ At(m.edges, 2 * k) < m.vertex_count
    /\ At(m.edges, (2 * k) + 1) < m.vertex_count

\* the edges of the list before edge n that are in range
InRangeBefore(m, n) == {k \in 0..(n - 1) : EdgeInRange(m, k)}

\* C13: in the renderer without culling, after any number of edges of the
\* list: the edges reported are exactly the processed ones with an index >=
\* vertex_count (index = vertex_count included), no line was drawn and no
\* vertex read for them, every in-range edge processed was drawn, in list
\* order, and lines_drawn is the number of in-range edges processed; at the
\* end of the loop it is the number of in-range edges of the list.
C13_FallbackBounds ==
    LET n == edge_loop.edge_idx
        ok == InRangeBefore(edge_mesh, n)
    IN /\ n <= edge_mesh.edge_count
       /\ edge_loop.reported = (0..(n - 1)) \ ok
       /\ edge_loop.lines_drawn = Cardinality(ok)
       /\ Len(edge_loop.drawn) = edge_loop.lines_drawn
       /\ \A k \in ok :
             edge_loop.drawn[Cardinality(InRangeBefore(edge_mesh, k)) + 1]
             = <<At(edge_mesh.edges, 2 * k), At(edge_mesh.edges, (2 * k) + 1)>>
       /\ edge_loop.verts_read
             = UNION {{At(edge_mesh.edges, 2 * k),
                       At(edge_mesh.edges, (2 * k) + 1)} : k \in ok}
       /\ edge_loop.verts_read \subseteq 0..(edge_mesh.vertex_count - 1)

\* C13 witness: the loop is done; an edge with an index equal to
\* vertex_count was reported and skipped, and in-range edges before and
\* after it were drawn.
C13_Witness ==
    /\ edge_mesh.edge_count = 3
    /\ edge_loop.edge_idx = 3
    /\ edge_loop.reported = {1}
    /\ At(edge_mesh.edges, 2) = edge_mesh.vertex_count
    /\ edge_loop.lines_drawn = 2

\* C14 as stated: with a face that refers to a vertex index >= vertex_count
\* the frame still runs to its end (no read faults), no edge with such an
\* index is kept for drawing, and screen_coords is read at indices
\* 0..vertex_count-1 only, in the classification and in the drawing.
C14_Original ==
    /\ ~render.fault
    /\ render.outside_reads = {}
    /\ \A i \in 1..visible_edge_count :
          /\ visible_edges[i].v1 < mesh.vertex_count
          /\ visible_edges[i].v2 < mesh.vertex_count

\* twice the outward component of the normal the right-hand rule gives the
\* first three vertices of face f of a mesh centred at <<1/2, 1/2, 1/2>>
OutwardTurn(m, f) ==
    LET v0 == m.vertices[FaceVertex(m, f, 0) + 1]
        v1 == m.vertices[FaceVertex(m, f, 1) + 1]
        v2 == m.vertices[FaceVertex(m, f, 2) + 1]
        a == <<v1[1] - v0[1], v1[2] - v0[2], v1[3] - v0[3]>>
        b == <<v2[1] - v1[1], v2[2] - v1[2], v2[3] - v1[3]>>
        n == <<(a[2] * b[3]) - (a[3] * b[2]), (a[3] * b[1]) - (a[1] * b[3]),
               (a[1] * b[2]) - (a[2] * b[1])>>
    IN (n[1] * ((2 * v0[1]) - 1)) + (n[2] * ((2 * v0[2]) - 1))
         + (n[3] * ((2 * v0[3]) - 1))

\* every face loop runs counter-clockwise when seen from outside
CcwFromOutside(m) == \A f \in 0..(m.face_count - 1) : OutwardTurn(m, f) > 0

\* the faces of the cube in the plane z = 0, nearest to the camera, and in
\* the plane z = 1
FrontFace == 0
BackFace == 1

\* C12 as stated: for the unit cube, faces counter-clockwise from outside,
\* at camera distance 800 with zero rotation and no lateral offset, once the
\* face loop is done the front face (z = 0) has a positive cross product and
\* was classified visible, the back face (z = 1) was not, and the visible
\* edge set holds exactly 4 edges, those of the front face.
C12_Original ==
    (/\ mesh = UnitCube
     /\ CcwFromOutside(mesh)
     /\ current_frame = 0
     /\ x_offset = 0
     /\ face_idx = mesh.face_count)
    => /\ FaceCross(mesh, screen_coords, FrontFace) > 0
       /\ FaceCross(mesh, screen_coords, BackFace) <= 0
       /\ visible_edge_count = 4
       /\ \A i \in 1..visible_edge_count :
             /\ mesh.vertices[visible_edges[i].v1 + 1][3] = 0
             /\ mesh.vertices[visible_edges[i].v2 + 1][3] = 0

\* Exact arithmetic on natural numbers of any size: a number is the
\* sequence of its base-4096 digits, the lowest first, without leading
\* zeros (0 is the empty sequence).
Base == 4096

\* the digits of the sum of seq[i] * Base^(i-1) for entries below 2^30
RECURSIVE Carry(_, _, _)
Carry(seq, i, c) ==
    IF i > Len(seq)
    THEN (IF c = 0 THEN <<>> ELSE <<c % Base>> \o Carry(seq, i, c \div Base))
    ELSE LET v == seq[i] + c
         IN <<v % Base>> \o Carry(seq, i + 1, v \div Base)

RECURSIVE Trim(_)
Trim(seq) ==
    IF seq = <<>> THEN <<>>
    ELSE IF seq[Len(seq)] = 0 THEN Trim(SubSeq(seq, 1, Len(seq) - 1))
    ELSE seq

BigNat(seq) == Trim(Carry(seq, 1, 0))

Digit(a, i) == IF i <= Len(a) THEN a[i] ELSE 0

BigAdd(a, b) ==
    LET n == IF Len(a) > Len(b) THEN Len(a) ELSE Len(b)
    IN BigNat([i \in 1..n |-> Digit(a, i) + Digit(b, i)])

\* a * 2^s
BigShift(a, s) ==
    BigNat([i \in 1..(s \div 12) |-> 0]
             \o [i \in 1..Len(a) |-> a[i] * Two(s % 12)])

\* m * m for 0 <= m < 2^24
BigSquare(m) ==
    LET hi == m \div Base
        lo == m % Base
    IN BigNat(<<lo * lo, 2 * (hi * lo), hi * hi>>)

\* a <= b
RECURSIVE BigLeFrom(_, _, _)
BigLeFrom(a, b, i) ==
    IF i = 0 THEN TRUE
    ELSE IF a[i] # b[i] THEN a[i] < b[i]
    ELSE BigLeFrom(a, b, i - 1)

BigLe(a, b) ==
    IF Len(a) # Len(b) THEN Len(a) < Len(b) ELSE BigLeFrom(a, b, Len(a))

\* the least exponent of the floats of q that are not zero
MinExp(q) ==
    LET es == {q[i].e : i \in {j \in 1..3 : q[j].m # 0}}
    IN CHOOSE e \in es : \A o \in es : e <= o

\* the squared length of the point q of floats, in units of 2^(2 * u)
NormSq(q, u) ==
    LET sq(f) == IF f.m = 0 THEN <<>>
                 ELSE BigShift(BigSquare(Abs(f.m)), 2 * (f.e - u))
    IN BigAdd(BigAdd(sq(q[1]), sq(q[2])), sq(q[3]))

\* four times the squared length of the point of coordinates p / 2
Norm4(p) == (p[1] * p[1]) + (p[2] * p[2]) + (p[3] * p[3])

\* the squared length of the point p / 2, times 2^(-k), in units of 2^(2 * u)
HalfNormSq(p, u, k) == BigShift(BigNat(<<Norm4(p)>>), ((-2) - k) - (2 * u))

\* the rotated point is at the distance of the original from the centre,
\* exactly
NormKept ==
    LET u == MinExp(rot.q)
    IN NormSq(rot.q, u) = HalfNormSq(rot.p, u, 0)

\* the squared distances differ by at most 2^-19 of the original's
NormNear ==
    LET u == MinExp(rot.q)
        after == NormSq(rot.q, u)
        before == HalfNormSq(rot.p, u, 0)
        tol == HalfNormSq(rot.p, u, 19)
    IN /\ BigLe(after, BigAdd(before, tol))
       /\ BigLe(before, BigAdd(after, tol))

\* cosine and sine of k quarter turns
QCos(k) == <<1, 0, -1, 0>>[(k % 4) + 1]
QSin(k) == <<0, 1, 0, -1>>[(k % 4) + 1]

\* the point p turned by k quarter turns about the X, the Y and the Z axis
TurnX(p, k) ==
    <<p[1], (p[2] * QCos(k)) - (p[3] * QSin(k)),
      (p[2] * QSin(k)) + (p[3] * QCos(k))>>

TurnY(p, k) ==
    <<(p[1] * QCos(k)) + (p[3] * QSin(k)), p[2],
      (p[3] * QCos(k)) - (p[1] * QSin(k))>>

TurnZ(p, k) ==
    <<(p[1] * QCos(k)) - (p[2] * QSin(k)),
      (p[1] * QSin(k)) + (p[2] * QCos(k)), p[3]>>

\* quarter turns of the phase about axis i, where the phase is a whole
\* number of them
Quarters(i) == (current_frame \div (FRAME_COUNT \div 4)) * rotation_axes[i]

TurnedXYZ == TurnZ(TurnY(TurnX(rot.p, Quarters(1)), Quarters(2)), Quarters(3))

TurnedZYX == TurnX(TurnY(TurnZ(rot.p, Quarters(3)), Quarters(2)), Quarters(1))

\* 2^-18
OrderTol == [m |-> Two(23), e |-> -41]

\* At a phase of whole quarter turns the rotated point is, within 2^-18 in
\* each coordinate, the point turned about X first, then Y, then Z.
OrderKept ==
    (current_frame % (FRAME_COUNT \div 4) = 0)
    => \A i \in 1..3 :
          FLeS(FAbs(FSub(rot.q[i], FHalf(TurnedXYZ[i]))), OrderTol)

\* C18 as stated: rotate_point turns about X, then Y, then Z, and the
\* rotated point's distance from the centre equals the original's.
C18_Original == rot.done => (OrderKept /\ NormKept)

\* C18: rotate_point turns about X, then Y, then Z, and for a unit point
\* on an axis or a centred mesh vertex it preserves the distance from the
\* centre within floating-point tolerance: the squared distances differ by
\* at most 2^-19 of the original's, for every phase, every axis mask and
\* every cosine and sine within one float of the nearest.
C18_Amended == rot.done => (OrderKept /\ NormNear)

\* a mesh vertex turned a quarter turn about all three axes, where the
\* order of the axes matters, and a rotated point whose distance is not
\* exactly the original's
C18_Witness ==
    /\ rot.done
    /\ rotation_axes = <<1, 1, 1>>
    /\ current_frame = FRAME_COUNT \div 4
    /\ TurnedXYZ # TurnedZYX
    /\ rot.p[1] % 2 # 0
    /\ ~NormKept

\* C21: after every update the depth is (|x_offset| / 15)^2 * 200 of the
\* offset as that same update moved and clamped it, it lies in [0, 200],
\* and the update started a morph exactly when that depth exceeds 180 and
\* no morph was active before the update.
C21_DepthFromNewOffset ==
    [][started'
         => /\ z_position' = Depth(x_offset')
            /\ z_position'.m >= 0
            /\ ~FGt(z_position', FNorm(DEPTH_200, 0))
            /\ ev'.trigger <=> (FGt(Depth(x_offset'), FNorm(DEPTH_180, 0))
                                 /\ ~is_morphing)]_vars

\* C21 witness: an update that moved the offset across the depth threshold:
\* the depth of the offset it started from is at most 180, the depth of the
\* new offset is above, and the morph started in that update.
C21_Witness ==
    /\ started
    /\ ticks > 1
    /\ ev.trigger
    /\ ~ev.clamp
    /\ FGt(z_position, FNorm(DEPTH_180, 0))
    /\ ~FGt(Depth(x_offset - (x_direction * STEP_06)), FNorm(DEPTH_180, 0))

\* C24: a timer tick starts a morph only when none is active; a morph start
\* comes at least 20 ticks after the start before it; the current mesh
\* index changes only at a morph start, so it keeps its value on the 20
\* ticks that begin with a start, whatever the depth is on those ticks.
C24_NoMorphWhileActive ==
    [][started
         => /\ ev'.trigger => ~is_morphing
            /\ (ev'.trigger /\ morph_start_tick > 0)
                  => ticks' - morph_start_tick >= 20
            /\ current_pentacube' # current_pentacube => ev'.trigger
            /\ (morph_start_tick > 0 /\ ticks' - morph_start_tick < 20)
                  => /\ current_pentacube' = current_pentacube
                     /\ ~ev'.trigger]_vars

\* C24 witness: the 19th tick of an active morph, on which the depth is
\* above the threshold and no morph started.
C24_Witness ==
    /\ started
    /\ is_morphing
    /\ ticks - morph_start_tick = 18
    /\ FGt(z_position, FNorm(DEPTH_180, 0))
    /\ ~ev.trigger

\* C25: until the first morph start the progress is 0.0 with no morph
\* active, and every frame drawn until then, the startup frame included,
\* has opacity 0; once a morph has started, whenever no morph is active the
\* progress is exactly 1.0 and the frame's opacity is 255.
C25_InitialMeshInvisible ==
    /\ morph_start_tick = 0
          => (morphing_progress = 0 /\ ~is_morphing /\ opacity = 0)
    /\ (morph_start_tick > 0 /\ ~is_morphing)
          => (morphing_progress = POne /\ opacity = LV_OPA_COVER)

\* C25 witness: a timer frame of the mesh picked at startup, drawn before
\* any morph has started.
C25_Witness ==
    /\ started
    /\ ticks > 1
    /\ morph_start_tick = 0
    /\ opacity = 0
    /\ ev.frame_phase > 0

\* C26 as stated: every frame drawn after another, the first timer frame
\* after the startup frame included, comes with one animation-state update
\* and is drawn at the phase of the frame before it plus one modulo
\* FRAME_COUNT.
C26_Original ==
    [][(started /\ started')
         => /\ ticks' = ticks + 1
            /\ ev'.frame_phase = (ev.frame_phase + 1) % FRAME_COUNT]_vars

\* the integer part of 255 * p / 2^28 for a progress p in units of 2^-28
TruncExact(p) ==
    (((p \div 256) * 255) + (((p % 256) * 255) \div 256)) \div Two(20)

\* the edges held in the first n entries of the edge buffer, as a set
EdgeSetOf(es, n) == {es[i] : i \in 1..n}

\* C22: a frame that has run to its end issued as many line-draw calls as
\* its visible edge set has edges, each with the same opa, the integer part
\* of 255 * morphing_progress as the frame's update left the progress (0 at
\* progress 0.0, 255 at 1.0); while the frame runs, the calls made so far
\* are one per edge drawn, with that opa.
C22_OneLinePerEdge ==
    /\ render.lines_drawn = Len(render.opas)
    /\ render.lines_drawn = render.i
    /\ render.i <= visible_edge_count
    /\ \A k \in 1..Len(render.opas) :
          /\ render.opas[k] = TruncExact(morphing_progress)
          /\ morphing_progress = 0 => render.opas[k] = 0
          /\ morphing_progress = POne => render.opas[k] = LV_OPA_COVER
    /\ (pos = "idle" /\ ticks > 0)
          => render.lines_drawn
               = Cardinality(EdgeSetOf(visible_edges, visible_edge_count))

\* C22 witness: a finished frame that drew several lines at an opacity
\* strictly between 0 and 255
C22_Witness ==
    /\ pos = "idle"
    /\ ticks > 0
    /\ render.lines_drawn > 4
    /\ render.opas[1] > 0
    /\ render.opas[1] < LV_OPA_COVER

\* C23: between frames no scratch buffer is outstanding: a frame that
\* returns has freed every buffer it was given.
C23_ScratchReleased == pos = "idle" => scratch = {}

\* C23 witness: a frame that held all three buffers has returned
C23_Witness ==
    /\ pos = "idle"
    /\ ticks > 0
    /\ scratch = {}
    /\ visible_edge_count > 0
    /\ render.lines_drawn = visible_edge_count

====
